---- MODULE Spec2Model ----
(***************************************************************************)
(* The layout engine of src/app.js (agent-protocols tech tree): the tree   *)
(* walk of buildLayoutFromTree, resolveColumns, computePositions and       *)
(* routeEdge, as a state machine over the page's global DATA.              *)
(*                                                                         *)
(* Conventions of the model                                                *)
(*   - an id is a sequence of hyphen-free segments ("tool-calling" is      *)
(*     <<"tool","calling">>), so that a template string `${a}-${b}` is     *)
(*     the concatenation a \o b of segment sequences;                      *)
(*   - an optional field (undefined in JS) is the empty sequence <<>>, a   *)
(*     present value v is <<v>>; an absent id is <<>>;                     *)
(*   - a JS Map is a function (keyed lookups only) or, where the code      *)
(*     iterates it, a sequence in insertion order;                         *)
(*   - vertical coordinates are integers in units of 1/YUnit pixel, which  *)
(*     represents the dyadic fractions the code's divisions by 2 produce   *)
(*     exactly; horizontal coordinates are whole pixels;                   *)
(*   - inputIdx is the 1-based position in DATA.technologies (the code's   *)
(*     is 0-based; it is only ever compared).                              *)
(***************************************************************************)
EXTENDS Integers, Sequences, FiniteSets, TLC

\* ---------------------------------------------------------------- bounds
\* Number of technologies in DATA.technologies.
MaxNodes == 3

\* ------------------------------------------------------ program constants
\* cfg (src/app.js 25-33)
boxW == 204
boxH == 80
gapX == 100
gapY == 30
marginX == 60
marginY == 60
clusterPad == 14

\* One pixel in vertical units: every center is a multiple of 1/YUnit px.
YUnit == 2 ^ (MaxNodes + 3)
BoxH == boxH * YUnit
GapY == gapY * YUnit

\* ------------------------------------------------------------- utilities
Last(s) == s[Len(s)]

RECURSIVE SumSeq(_)
SumSeq(s) == IF s = <<>> THEN 0 ELSE Head(s) + SumSeq(Tail(s))

\* Map.prototype.set on a Map held as a function.
MapSet(m, k, v) == [x \in (DOMAIN m) \cup {k} |-> IF x = k THEN v ELSE m[x]]
EmptyMap == [x \in {} |-> 0]

\* String(n) of an integer, as segments: "-1" is an empty segment before "1".
NumSegs(n) == IF n < 0 THEN <<"", ToString(-n)>> ELSE <<ToString(n)>>

\* ------------------------------------------------------------------- ids
NodeNames == <<"a", "b", "c", "d", "e", "f", "g">>
NodeId(i) == <<NodeNames[i]>>
\* An id that no technology and no cluster has.
Dangling == <<"zz">>

\* A layout object of a technology (DATA_YAML_GUIDE.md, Layout).
Layout(col, offset, parent, parents, clusterId) ==
  [col |-> col, offset |-> offset, parent |-> parent, parents |-> parents,
   clusterId |-> clusterId]
NoLayout == Layout(<<>>, <<>>, <<>>, <<>>, <<>>)

\* ------------------------------------------------------- layout helpers
\* getLayoutParentIds (src/app.js 364-369)
getLayoutParentIds(n) ==
  IF n.layout.parents # <<>> THEN n.layout.parents
  ELSE IF n.layout.parent # <<>> THEN <<n.layout.parent>>
  ELSE <<>>

\* new Map(nodes.map(n => [n.id, n])).get(id): the index of the node, 0 if none
\* (a later entry with the same id replaces an earlier one).
ById(nodes, id) ==
  LET hits == {i \in 1..Len(nodes) : nodes[i].id = id}
  IN IF hits = {} THEN 0 ELSE CHOOSE i \in hits : \A j \in hits : j <= i

\* The column a missing node id resolves to (src/app.js 382).
MissingNodeCol == 0
\* The column of a node without parents (src/app.js 393).
RootCol == 0
\* The offset of a node that declares none (src/app.js 399).
DefaultOffset == 1

RECURSIVE getColOffsetDropped(_, _, _)
\* getCol, had it added the default offset whatever the node declares.
getColOffsetDropped(nodes, nodeId, resolved) ==
  IF nodeId \in DOMAIN resolved
  THEN [col |-> resolved[nodeId], resolved |-> resolved]
  ELSE LET i == ById(nodes, nodeId) IN
    IF i = 0 THEN [col |-> MissingNodeCol, resolved |-> resolved]
    ELSE LET node == nodes[i] IN
      IF node.layout.col # <<>>
      THEN [col |-> node.layout.col[1],
            resolved |-> MapSet(resolved, nodeId, node.layout.col[1])]
      ELSE LET parentIds == getLayoutParentIds(node) IN
        IF Len(parentIds) = 0
        THEN [col |-> RootCol, resolved |-> MapSet(resolved, nodeId, RootCol)]
        ELSE LET p == getColOffsetDropped(nodes, parentIds[1], resolved)
                 col == p.col + DefaultOffset
             IN [col |-> col, resolved |-> MapSet(p.resolved, nodeId, col)]

RECURSIVE getCol(_, _, _)
\* resolveColumns.getCol (src/app.js 378-403): the column of nodeId and the
\* memo after the call.
getCol(nodes, nodeId, resolved) ==
  IF nodeId \in DOMAIN resolved
  THEN [col |-> resolved[nodeId], resolved |-> resolved]
  ELSE LET i == ById(nodes, nodeId) IN
    IF i = 0 THEN [col |-> MissingNodeCol, resolved |-> resolved]
    ELSE LET node == nodes[i] IN
      IF node.layout.col # <<>>
      THEN [col |-> node.layout.col[1],
            resolved |-> MapSet(resolved, nodeId, node.layout.col[1])]
      ELSE LET parentIds == getLayoutParentIds(node) IN
        IF Len(parentIds) = 0
        THEN [col |-> RootCol, resolved |-> MapSet(resolved, nodeId, RootCol)]
        ELSE LET p == getCol(nodes, parentIds[1], resolved)
                 offset == IF node.layout.offset # <<>> THEN node.layout.offset[1]
                           ELSE DefaultOffset
                 col == p.col + offset
             IN [col |-> col, resolved |-> MapSet(p.resolved, nodeId, col)]

RECURSIVE getColVisits(_, _, _)
\* resolveColumns.getCol (src/app.js 378-403) with a record of its work: st =
\* [resolved, sets], sets listing the ids for which resolved.set ran, in order.
getColVisits(nodes, nodeId, st) ==
  IF nodeId \in DOMAIN st.resolved
  THEN [col |-> st.resolved[nodeId], st |-> st]
  ELSE LET i == ById(nodes, nodeId) IN
    IF i = 0 THEN [col |-> MissingNodeCol, st |-> st]
    ELSE LET node == nodes[i]
             Set(t, col) == [resolved |-> MapSet(t.resolved, nodeId, col),
                             sets |-> Append(t.sets, nodeId)]
         IN
      IF node.layout.col # <<>>
      THEN [col |-> node.layout.col[1], st |-> Set(st, node.layout.col[1])]
      ELSE LET parentIds == getLayoutParentIds(node) IN
        IF Len(parentIds) = 0
        THEN [col |-> RootCol, st |-> Set(st, RootCol)]
        ELSE LET p == getColVisits(nodes, parentIds[1], st)
                 offset == IF node.layout.offset # <<>> THEN node.layout.offset[1]
                           ELSE DefaultOffset
                 col == p.col + offset
             IN [col |-> col, st |-> Set(p.st, col)]

RECURSIVE ResolveAllVisits(_, _, _)
\* nodes.forEach(n => getCol(n.id)) (src/app.js 406) with that record.
ResolveAllVisits(nodes, i, st) ==
  IF i > Len(nodes) THEN st
  ELSE ResolveAllVisits(nodes, i + 1, getColVisits(nodes, nodes[i].id, st).st)

RECURSIVE ResolveAll(_, _, _)
\* nodes.forEach(n => getCol(n.id)) (src/app.js 406)
ResolveAll(nodes, i, resolved) ==
  IF i > Len(nodes) THEN resolved
  ELSE ResolveAll(nodes, i + 1, getCol(nodes, nodes[i].id, resolved).resolved)

\* resolveColumns, had every further parent of an entity without explicit
\* column pushed the entity one column to the right.
resolveColumnsCountingParents(nodes) ==
  LET r == ResolveAll(nodes, 1, EmptyMap)
      Further(id) == LET n == nodes[ById(nodes, id)]
                     IN IF n.layout.col = <<>> /\ Len(getLayoutParentIds(n)) > 1
                        THEN Len(getLayoutParentIds(n)) - 1 ELSE 0
  IN [id \in DOMAIN r |-> r[id] + Further(id)]

\* resolveColumns (src/app.js 374-415): the returned Map.
resolveColumns(nodes) == ResolveAll(nodes, 1, EmptyMap)

\* The write-back, had it stored the column one too far to the right.
WriteBackShifted(nodes, resolved) ==
  [i \in 1..Len(nodes) |->
     [nodes[i] EXCEPT !.layout.col = <<resolved[nodes[i].id] + 1>>]]

\* resolveColumns' write-back of the columns on the layout objects
\* (src/app.js 409-412).
WriteBack(nodes, resolved) ==
  [i \in 1..Len(nodes) |->
     [nodes[i] EXCEPT !.layout.col = <<resolved[nodes[i].id]>>]]

\* ------------------------------------------------------ computePositions
\* new Map(clusters.map(c => [c.id, c])).get(id): index of the cluster, 0 if none.
ClusterById(clusters, id) ==
  LET hits == {i \in 1..Len(clusters) : clusters[i].id = id}
  IN IF hits = {} THEN 0 ELSE CHOOSE i \in hits : \A j \in hits : j <= i

\* The column of the parent pid of an edge: a cluster's col (<<>> when the
\* cluster has none: the comparisons with undefined + 1 are all false), else the
\* node's resolved col; <<>> when pid names neither (src/app.js 453-460, 532-539).
ParentColOf(nodes, clusters, pid) ==
  IF ClusterById(clusters, pid) # 0
  THEN clusters[ClusterById(clusters, pid)].col
  ELSE IF ById(nodes, pid) = 0 THEN <<>>
  ELSE <<nodes[ById(nodes, pid)].layout.col[1]>>

\* The keys of the Maps of the placeholder step (src/app.js 464, 506, 508, 513).
GroupKey(pid, col) == pid \o NumSegs(col)
ClusterKey(childId, parentId, col) == childId \o parentId \o NumSegs(col)
PhKey(parentId, col, clusterIdx) == parentId \o NumSegs(col) \o NumSegs(clusterIdx)
PhId(parentId, col, clusterIdx) == <<"ph">> \o PhKey(parentId, col, clusterIdx)

\* Index in groups of the group with this key, 0 if none (skipEdgeGroups.has).
GroupAt(groups, key) ==
  IF \E g \in 1..Len(groups) : groups[g].key = key
  THEN CHOOSE g \in 1..Len(groups) : groups[g].key = key ELSE 0

RECURSIVE AddSkipCols(_, _, _, _, _, _)
\* The loop over the skipped columns of one edge (src/app.js 463-469).
AddSkipCols(groups, pid, parentCol, col, childCol, inputIdx) ==
  IF col >= childCol THEN groups
  ELSE LET key == GroupKey(pid, col)
           g == GroupAt(groups, key)
           next == IF g = 0
                   THEN Append(groups, [key |-> key, parentId |-> pid,
                                        parentCol |-> parentCol, col |-> col,
                                        children |-> <<inputIdx>>])
                   ELSE [groups EXCEPT ![g].children = Append(@, inputIdx)]
       IN AddSkipCols(next, pid, parentCol, col + 1, childCol, inputIdx)

RECURSIVE AddSkipEdges(_, _, _, _, _)
\* The loop over the parents of node inputIdx (src/app.js 451-470).
AddSkipEdges(nodes, clusters, groups, inputIdx, k) ==
  LET n == nodes[inputIdx]
      parentIds == getLayoutParentIds(n)
  IN IF k > Len(parentIds) THEN groups
     ELSE LET pid == parentIds[k]
              pc == ParentColOf(nodes, clusters, pid)
              next == IF pc = <<>> THEN groups
                      ELSE IF n.layout.col[1] <= pc[1] + 1 THEN groups
                      ELSE AddSkipCols(groups, pid, pc[1], pc[1] + 1,
                                       n.layout.col[1], inputIdx)
          IN AddSkipEdges(nodes, clusters, next, inputIdx, k + 1)

RECURSIVE SkipEdgeGroupsFrom(_, _, _, _)
SkipEdgeGroupsFrom(nodes, clusters, groups, inputIdx) ==
  IF inputIdx > Len(nodes) THEN groups
  ELSE SkipEdgeGroupsFrom(nodes, clusters,
         AddSkipEdges(nodes, clusters, groups, inputIdx, 1), inputIdx + 1)

\* skipEdgeGroups (src/app.js 447-471), in insertion order.
SkipEdgeGroups(nodes, clusters) == SkipEdgeGroupsFrom(nodes, clusters, <<>>, 1)

RECURSIVE SortIdx(_)
\* [...].sort((a, b) => a - b) of a sequence of integers (stable).
SortIdx(s) ==
  IF s = <<>> THEN <<>>
  ELSE LET x == Last(s)
           r == SortIdx(SubSeq(s, 1, Len(s) - 1))
           k == Cardinality({i \in 1..Len(r) : r[i] <= x})
       IN SubSeq(r, 1, k) \o <<x>> \o SubSeq(r, k + 1, Len(r))

RECURSIVE NodesAtColFrom(_, _, _)
NodesAtColFrom(nodes, col, i) ==
  IF i > Len(nodes) THEN <<>>
  ELSE (IF nodes[i].layout.col[1] = col THEN <<i>> ELSE <<>>)
       \o NodesAtColFrom(nodes, col, i + 1)

\* realNodesAtCol.get(col) || [], sorted by inputIdx (src/app.js 473-484).
RealNodesAt(nodes, col) == SortIdx(NodesAtColFrom(nodes, col, 1))

RECURSIVE AdvancePointer(_, _, _, _)
\* The while loop of src/app.js 496-503: the pointer after it, and whether a
\* real node lies strictly between the two children.
AdvancePointer(real, ptr, prevChildIdx, currChildIdx) ==
  IF ptr <= Len(real) /\ real[ptr] < currChildIdx
  THEN IF real[ptr] > prevChildIdx
       THEN [ptr |-> ptr, split |-> TRUE]
       ELSE AdvancePointer(real, ptr + 1, prevChildIdx, currChildIdx)
  ELSE [ptr |-> ptr, split |-> FALSE]

\* The synthetic parent of a placeholder (src/app.js 510, 515).
PlaceholderParent(parentId, parentCol, col, clusterIdx) ==
  IF col = parentCol + 1 THEN parentId ELSE PhId(parentId, col - 1, clusterIdx)

RECURSIVE PlaceChildren(_, _, _, _, _, _, _)
\* The loop over the children of one group (src/app.js 489-521).
\* st = [n2pc, placeholders, phKeys].
PlaceChildren(nodes, group, real, i, clusterIdx, ptr, st) ==
  IF i > Len(group.children) THEN st
  ELSE LET child == group.children[i]
           adv == IF i > 1
                  THEN AdvancePointer(real, ptr, group.children[i - 1], child)
                  ELSE [ptr |-> ptr, split |-> FALSE]
           ci == IF adv.split THEN clusterIdx + 1 ELSE clusterIdx
           phKey == PhKey(group.parentId, group.col, ci)
           ph == [id |-> <<"ph">> \o phKey,
                  col |-> group.col,
                  parent |-> PlaceholderParent(group.parentId, group.parentCol,
                                               group.col, ci),
                  isPlaceholder |-> TRUE,
                  inputIdx |-> child,
                  clusterId |-> <<>>]
           st1 == [n2pc |-> MapSet(st.n2pc,
                                   ClusterKey(nodes[child].id, group.parentId, group.col),
                                   ci),
                   placeholders |-> IF phKey \in st.phKeys THEN st.placeholders
                                    ELSE Append(st.placeholders, ph),
                   phKeys |-> st.phKeys \cup {phKey}]
       IN PlaceChildren(nodes, group, real, i + 1, ci, adv.ptr, st1)

RECURSIVE PlaceGroups(_, _, _, _)
\* The loop over skipEdgeGroups (src/app.js 479-522).
PlaceGroups(nodes, groups, g, st) ==
  IF g > Len(groups) THEN st
  ELSE LET group == [groups[g] EXCEPT !.children = SortIdx(@)]
       IN PlaceGroups(nodes, groups, g + 1,
            PlaceChildren(nodes, group, RealNodesAt(nodes, group.col), 1, 0, 1, st))

\* Step 1 of computePositions (src/app.js 442-522): the placeholders and
\* nodeToPlaceholderCluster.
SynthesizePlaceholders(nodes, clusters) ==
  PlaceGroups(nodes, SkipEdgeGroups(nodes, clusters), 1,
              [n2pc |-> EmptyMap, placeholders |-> <<>>, phKeys |-> {}])

\* nodeToPlaceholderCluster.get(key) || 0
ClusterIdxOf(n2pc, key) == IF key \in DOMAIN n2pc THEN n2pc[key] ELSE 0

\* One layout parent of node n (src/app.js 531-547).
LayoutParentOf(nodes, clusters, n2pc, n, pid) ==
  LET pc == ParentColOf(nodes, clusters, pid) IN
  IF pc = <<>> THEN pid
  ELSE IF n.layout.col[1] > pc[1] + 1
  THEN PhId(pid, n.layout.col[1] - 1,
            ClusterIdxOf(n2pc, ClusterKey(n.id, pid, n.layout.col[1] - 1)))
  ELSE pid

\* layoutParents (src/app.js 524-550): a Map from node id to its layout parents.
LayoutParents(nodes, clusters, n2pc) ==
  LET ids == {nodes[i].id : i \in 1..Len(nodes)}
      Of(id) == LET n == nodes[ById(nodes, id)]
                    parentIds == getLayoutParentIds(n)
                IN [k \in 1..Len(parentIds) |->
                      LayoutParentOf(nodes, clusters, n2pc, n, parentIds[k])]
  IN [id \in ids |-> Of(id)]

\* An entry of allItems for node i: { ...n, inputIdx: i } (src/app.js 553).
NodeItem(nodes, i) ==
  [id |-> nodes[i].id, col |-> nodes[i].layout.col[1], parent |-> <<>>,
   isPlaceholder |-> FALSE, inputIdx |-> i, clusterId |-> nodes[i].layout.clusterId]

\* allItems (src/app.js 552-555)
AllItems(nodes, placeholders) ==
  [i \in 1..Len(nodes) |-> NodeItem(nodes, i)] \o placeholders

\* layoutParents.get(item.id) || (item.parent ? [item.parent] : [])
\* (src/app.js 572, 587, 651, 661)
LayoutParentsOfItem(layoutParents, item) ==
  IF item.id \in DOMAIN layoutParents THEN layoutParents[item.id]
  ELSE IF item.parent # <<>> THEN <<item.parent>> ELSE <<>>

RECURSIVE SortByInputIdx(_)
\* items.sort((a, b) => a.inputIdx - b.inputIdx), a stable sort.
SortByInputIdx(items) ==
  IF items = <<>> THEN <<>>
  ELSE LET x == Last(items)
           r == SortByInputIdx(SubSeq(items, 1, Len(items) - 1))
           k == Cardinality({i \in 1..Len(r) : r[i].inputIdx <= x.inputIdx})
       IN SubSeq(r, 1, k) \o <<x>> \o SubSeq(r, k + 1, Len(r))

\* columns.get(col) || [] (src/app.js 557-564): the items of a column, sorted.
ColumnItems(allItems, col) ==
  LET AtCol(item) == item.col = col
  IN SortByInputIdx(SelectSeq(allItems, AtCol))

RECURSIVE SetToSortedSeq(_)
SetToSortedSeq(S) ==
  IF S = {} THEN <<>>
  ELSE LET m == CHOOSE x \in S : \A y \in S : x <= y
       IN <<m>> \o SetToSortedSeq(S \ {m})

\* sortedCols (src/app.js 566)
SortedCols(allItems) == SetToSortedSeq({allItems[i].col : i \in 1..Len(allItems)})

RECURSIVE CopiesFor(_, _, _, _)
\* item, once for every occurrence of pid among its layout parents lps.
CopiesFor(item, lps, pid, k) ==
  IF k > Len(lps) THEN <<>>
  ELSE (IF lps[k] = pid THEN <<item>> ELSE <<>>) \o CopiesFor(item, lps, pid, k + 1)

RECURSIVE ChildrenFrom(_, _, _, _)
ChildrenFrom(allItems, layoutParents, pid, i) ==
  IF i > Len(allItems) THEN <<>>
  ELSE CopiesFor(allItems[i], LayoutParentsOfItem(layoutParents, allItems[i]), pid, 1)
       \o ChildrenFrom(allItems, layoutParents, pid, i + 1)

\* childrenOf.get(pid) || [] (src/app.js 569-577, 585)
ChildrenOf(allItems, layoutParents, pid) == ChildrenFrom(allItems, layoutParents, pid, 1)

\* subtreeHeight.get(id) || cfg.boxH (src/app.js 599, 608, 626, 670)
HeightOr(subtreeHeight, id) ==
  IF id \in DOMAIN subtreeHeight /\ subtreeHeight[id] # 0
  THEN subtreeHeight[id] ELSE BoxH

\* sum of the heights + (count - 1) * gapY (src/app.js 600, 609, 627, 671)
SpanOf(heights) == SumSeq(heights) + (Len(heights) - 1) * GapY

\* The subtree height set for one item (src/app.js 585-602).
ItemHeight(allItems, layoutParents, subtreeHeight, item) ==
  LET children == ChildrenOf(allItems, layoutParents, item.id)
      Single(c) == Len(LayoutParentsOfItem(layoutParents, c)) = 1
      singleParentChildren == SelectSeq(children, Single)
      childHeights == [k \in 1..Len(singleParentChildren) |->
                         HeightOr(subtreeHeight, singleParentChildren[k].id)]
  IN IF Len(singleParentChildren) = 0 THEN BoxH
     ELSE IF item.isPlaceholder THEN BoxH
     ELSE SpanOf(childHeights)

RECURSIVE HeightsOfItems(_, _, _, _, _)
HeightsOfItems(allItems, layoutParents, items, k, subtreeHeight) ==
  IF k > Len(items) THEN subtreeHeight
  ELSE HeightsOfItems(allItems, layoutParents, items, k + 1,
         MapSet(subtreeHeight, items[k].id,
                ItemHeight(allItems, layoutParents, subtreeHeight, items[k])))

\* The last column of the right-to-left pass (src/app.js 582).
FirstHeightCol == 0

RECURSIVE HeightsFromCol(_, _, _, _)
\* for (col = maxCol; col >= 0; col--) (src/app.js 582-604)
HeightsFromCol(allItems, layoutParents, col, subtreeHeight) ==
  IF col < FirstHeightCol THEN subtreeHeight
  ELSE HeightsFromCol(allItems, layoutParents, col - 1,
         HeightsOfItems(allItems, layoutParents, ColumnItems(allItems, col), 1,
                        subtreeHeight))

RECURSIVE ClusterHeights(_, _, _)
\* Cluster subtree heights (src/app.js 606-611)
ClusterHeights(clusters, c, subtreeHeight) ==
  IF c > Len(clusters) THEN subtreeHeight
  ELSE LET cm == clusters[c]
           itemHeights == [k \in 1..Len(cm.members) |->
                             HeightOr(subtreeHeight, cm.members[k])]
       IN ClusterHeights(clusters, c + 1,
                         MapSet(subtreeHeight, cm.id, SpanOf(itemHeights)))

\* Steps 2 and 3 of computePositions (src/app.js 569-611): subtreeHeight.
SubtreeHeights(allItems, layoutParents, clusters) ==
  LET sortedCols == SortedCols(allItems)
      maxCol == Last(sortedCols)
  IN ClusterHeights(clusters, 1,
       HeightsFromCol(allItems, layoutParents, maxCol, EmptyMap))

\* ys.reduce((a, b) => a + b, 0) / ys.length (src/app.js 622, 685)
Mean(ys) == SumSeq(ys) \div Len(ys)

RECURSIVE DefinedYs(_, _)
\* ids.map(id => relY.get(id)).filter(y => y !== undefined) (src/app.js 620, 683)
DefinedYs(relY, ids) ==
  IF ids = <<>> THEN <<>>
  ELSE (IF Head(ids) \in DOMAIN relY THEN <<relY[Head(ids)]>> ELSE <<>>)
       \o DefinedYs(relY, Tail(ids))

\* The center of an item or cluster whose parents have no center (src/app.js
\* 618, 668, 688).
NoParentCenterY == 0

RECURSIVE StackFrom(_, _, _, _, _)
\* The stacking loop (src/app.js 630-634 and 674-678).
StackFrom(relY, ids, heights, k, currentY) ==
  IF k > Len(ids) THEN relY
  ELSE StackFrom(MapSet(relY, ids[k], currentY + heights[k] \div 2),
                 ids, heights, k + 1, currentY + heights[k] + GapY)

\* The stack, had it started at parentCenterY instead of half a span above it.
StackBelow(relY, ids, heights, parentCenterY) ==
  StackFrom(relY, ids, heights, 1, parentCenterY)

\* A stack of ids whose span is centered on parentCenterY (src/app.js 626-634
\* and 670-678).
StackAround(relY, ids, heights, parentCenterY) ==
  StackFrom(relY, ids, heights, 1, parentCenterY - SpanOf(heights) \div 2)

\* relY.set(cm.id, (firstItemY + lastItemY) / 2) (src/app.js 636-638, 717-719)
SetClusterCenter(relY, cm) ==
  MapSet(relY, cm.id, (relY[cm.members[1]] + relY[Last(cm.members)]) \div 2)

\* The center the members of cluster cm are stacked around (src/app.js 618-624).
ClusterParentCenterY(relY, cm) ==
  LET pys == DefinedYs(relY, cm.parentIds)
  IN IF Len(cm.parentIds) > 0 /\ Len(pys) > 0 THEN Mean(pys) ELSE NoParentCenterY

RECURSIVE PositionClusters(_, _, _, _)
\* "First, position cluster items as a group" (src/app.js 616-639)
PositionClusters(clusters, c, subtreeHeight, relY) ==
  IF c > Len(clusters) THEN relY
  ELSE LET cm == clusters[c]
           itemHeights == [k \in 1..Len(cm.members) |->
                             HeightOr(subtreeHeight, cm.members[k])]
           placed == StackAround(relY, cm.members, itemHeights,
                                 ClusterParentCenterY(relY, cm))
       IN PositionClusters(clusters, c + 1, subtreeHeight,
                           SetClusterCenter(placed, cm))

\* The byParent key of an item without layout parent (src/app.js 662).
RootKey == <<"__root__">>

\* lps[0] || "__root__" (src/app.js 662)
ByParentKey(lps) == IF lps = <<>> \/ lps[1] = <<>> THEN RootKey ELSE lps[1]

RECURSIVE ByParent(_, _, _, _)
\* byParent (src/app.js 659-665): the groups [pid, items] in insertion order.
ByParent(layoutParents, items, k, groups) ==
  IF k > Len(items) THEN groups
  ELSE LET pid == ByParentKey(LayoutParentsOfItem(layoutParents, items[k]))
           hit == {g \in 1..Len(groups) : groups[g].pid = pid}
           next == IF hit = {}
                   THEN Append(groups, [pid |-> pid, items |-> <<items[k]>>])
                   ELSE [groups EXCEPT ![CHOOSE g \in hit : TRUE].items =
                                          Append(@, items[k])]
       IN ByParent(layoutParents, items, k + 1, next)

\* parentCenterY of a byParent group (src/app.js 668)
GroupCenterY(relY, pid) ==
  IF pid # RootKey /\ pid \in DOMAIN relY THEN relY[pid] ELSE NoParentCenterY

RECURSIVE PlaceGroupsOfColumn(_, _, _, _)
\* for (const [pid, group] of byParent) (src/app.js 667-679)
PlaceGroupsOfColumn(groups, g, subtreeHeight, relY) ==
  IF g > Len(groups) THEN relY
  ELSE LET group == groups[g].items
           ids == [k \in 1..Len(group) |-> group[k].id]
           heights == [k \in 1..Len(group) |-> HeightOr(subtreeHeight, group[k].id)]
       IN PlaceGroupsOfColumn(groups, g + 1, subtreeHeight,
            StackAround(relY, ids, heights, GroupCenterY(relY, groups[g].pid)))

\* The center of a multi-parent item, had it followed the first parent only.
CentroidYOfFirst(relY, lps) ==
  LET parentYs == DefinedYs(relY, lps)
  IN IF Len(parentYs) > 0 THEN parentYs[1] ELSE NoParentCenterY

\* The center of a multi-parent item (src/app.js 682-689).
CentroidY(relY, lps) ==
  LET parentYs == DefinedYs(relY, lps)
  IN IF Len(parentYs) > 0 THEN Mean(parentYs) ELSE NoParentCenterY

RECURSIVE PlaceMultiParent(_, _, _, _)
\* multiParentItems.forEach (src/app.js 681-690)
PlaceMultiParent(layoutParents, items, k, relY) ==
  IF k > Len(items) THEN relY
  ELSE PlaceMultiParent(layoutParents, items, k + 1,
         MapSet(relY, items[k].id,
                CentroidY(relY, IF items[k].id \in DOMAIN layoutParents
                                THEN layoutParents[items[k].id] ELSE <<>>)))

\* The placement of one column before its collision resolution
\* (src/app.js 642-690).
PlaceColumn(items, layoutParents, subtreeHeight, relY) ==
  LET Free(item) == item.clusterId = <<>>
      Single(item) == Free(item) /\ Len(LayoutParentsOfItem(layoutParents, item)) <= 1
      Multi(item) == Free(item) /\ Len(LayoutParentsOfItem(layoutParents, item)) > 1
      singleParentItems == SelectSeq(items, Single)
      multiParentItems == SelectSeq(items, Multi)
      stacked == PlaceGroupsOfColumn(ByParent(layoutParents, singleParentItems, 1, <<>>),
                                     1, subtreeHeight, relY)
  IN PlaceMultiParent(layoutParents, multiParentItems, 1, stacked)

\* The shift, had it left the overlapping item itself where it was.
ShiftAfter(allColItems, j, overlap, relY) ==
  [id \in DOMAIN relY |->
     IF \E k \in (j + 1)..Len(allColItems) : allColItems[k].id = id
     THEN relY[id] + overlap ELSE relY[id]]

RECURSIVE ShiftFrom(_, _, _, _)
\* for (let j = i; ...) relY.set(id, relY.get(id) + overlap) (src/app.js 708-710)
ShiftFrom(allColItems, j, overlap, relY) ==
  IF j > Len(allColItems) THEN relY
  ELSE ShiftFrom(allColItems, j + 1, overlap,
                 [relY EXCEPT ![allColItems[j].id] = @ + overlap])

\* The overlap, had it left out the minimum gap.
OverlapWithoutGap(relY, prev, curr) ==
  LET prevBottom == relY[prev.id] + BoxH \div 2
      currTop == relY[curr.id] - BoxH \div 2
  IN prevBottom - currTop

\* overlap of two consecutive items of a column (src/app.js 703-705)
Overlap(relY, prev, curr) ==
  LET prevBottom == relY[prev.id] + BoxH \div 2
      currTop == relY[curr.id] - BoxH \div 2
  IN prevBottom + GapY - currTop

RECURSIVE SweepFrom(_, _, _)
SweepFrom(allColItems, i, relY) ==
  IF i > Len(allColItems) THEN relY
  ELSE LET overlap == Overlap(relY, allColItems[i - 1], allColItems[i])
       IN SweepFrom(allColItems, i + 1,
                    IF overlap > 0 THEN ShiftFrom(allColItems, i, overlap, relY)
                    ELSE relY)

\* Collision resolution of one column (src/app.js 692-712).
SweepColumn(items, relY) == SweepFrom(SortByInputIdx(items), 2, relY)

\* The cluster centers, had they been left as they were before the sweeps.
UpdateClusterCentersSkipped(clusters, c, relY) == relY

RECURSIVE UpdateClusterCenters(_, _, _)
\* "Update cluster center Y after collision resolution" (src/app.js 715-720)
UpdateClusterCenters(clusters, c, relY) ==
  IF c > Len(clusters) THEN relY
  ELSE UpdateClusterCenters(clusters, c + 1, SetClusterCenter(relY, clusters[c]))

\* The left edge of a column (src/app.js 732, 745, 777-778).
ColX(col) == marginX + col * (boxW + gapX)

\* minRelY (src/app.js 723-724)
MinRelY(relY) ==
  LET ys == {relY[id] : id \in DOMAIN relY}
  IN CHOOSE y \in ys : \A z \in ys : y <= z

\* offsetY (src/app.js 726)
OffsetY(relY) == marginY * YUnit + BoxH \div 2 - MinRelY(relY)

RECURSIVE PosOfItems(_, _, _, _, _)
\* allItems.forEach(item => pos.set(item.id, ...)) (src/app.js 728-740)
PosOfItems(allItems, k, relY, offsetY, pos) ==
  IF k > Len(allItems) THEN pos
  ELSE LET item == allItems[k] IN
    IF item.id \notin DOMAIN relY
    THEN PosOfItems(allItems, k + 1, relY, offsetY, pos)
    ELSE LET centerY == relY[item.id]
         IN PosOfItems(allItems, k + 1, relY, offsetY,
              MapSet(pos, item.id,
                [x |-> ColX(item.col),
                 y |-> centerY + offsetY - BoxH \div 2,
                 col |-> item.col,
                 isPlaceholder |-> item.isPlaceholder,
                 isCluster |-> FALSE,
                 centerY |-> centerY + offsetY,
                 clusterW |-> 0, clusterH |-> 0,
                 clusterRight |-> 0, clusterLeft |-> 0]))

SetMin(S) == CHOOSE y \in S : \A z \in S : y <= z
SetMax(S) == CHOOSE y \in S : \A z \in S : y >= z

RECURSIVE PosOfClusters(_, _, _, _, _)
\* "Store cluster bounding-box positions" (src/app.js 742-761); x, col,
\* clusterRight and clusterLeft of a cluster are <<v>>, or <<>> for NaN / undefined.
PosOfClusters(clusters, c, relY, offsetY, pos) ==
  IF c > Len(clusters) THEN pos
  ELSE LET cm == clusters[c]
           centerY == relY[cm.id] + offsetY
           \* cm.col undefined makes x NaN, written <<>>
           x == IF cm.col = <<>> THEN <<>> ELSE <<ColX(cm.col[1])>>
           placed == {k \in 1..Len(cm.members) : cm.members[k] \in DOMAIN pos}
       IN IF placed = {} THEN PosOfClusters(clusters, c + 1, relY, offsetY, pos)
          ELSE LET minItemY == SetMin({pos[cm.members[k]].y : k \in placed})
                   maxItemY == SetMax({pos[cm.members[k]].y + BoxH : k \in placed})
               IN PosOfClusters(clusters, c + 1, relY, offsetY,
                    MapSet(pos, cm.id,
                      [x |-> IF x = <<>> THEN <<>> ELSE <<x[1] - clusterPad>>,
                       y |-> minItemY - clusterPad * YUnit,
                       col |-> cm.col,
                       isPlaceholder |-> FALSE,
                       isCluster |-> TRUE,
                       centerY |-> centerY,
                       clusterW |-> boxW + clusterPad * 2,
                       clusterH |-> (maxItemY - minItemY) + clusterPad * 2 * YUnit,
                       clusterRight |->
                         IF x = <<>> THEN <<>> ELSE <<x[1] + boxW + clusterPad>>,
                       clusterLeft |->
                         IF x = <<>> THEN <<>> ELSE <<x[1] - clusterPad>>]))

\* Step 5 of computePositions (src/app.js 722-761): the position map.
PositionMap(allItems, clusters, relY) ==
  LET offsetY == OffsetY(relY)
  IN PosOfClusters(clusters, 1, relY, offsetY,
                   PosOfItems(allItems, 1, relY, offsetY, EmptyMap))

RECURSIVE PlaceColumnsFrom(_, _, _, _, _, _)
\* for (const col of sortedCols): placement, then collision resolution
\* (src/app.js 641-713).
PlaceColumnsFrom(items, cols, k, lps, heights, relY) ==
  IF k > Len(cols) THEN relY
  ELSE LET colItems == ColumnItems(items, cols[k])
       IN PlaceColumnsFrom(items, cols, k + 1, lps, heights,
            SweepColumn(colItems, PlaceColumn(colItems, lps, heights, relY)))

\* computePositions (src/app.js 426-764) as a function of the descriptors it
\* is given: the columns it resolves and what it returns.
computePositions(ns, cls) ==
  LET cols == resolveColumns(ns)
      written == WriteBack(ns, cols)
      st == SynthesizePlaceholders(written, cls)
      lps == LayoutParents(written, cls, st.n2pc)
      items == AllItems(written, st.placeholders)
      heights == SubtreeHeights(items, lps, cls)
      placed == PlaceColumnsFrom(items, SortedCols(items), 1, lps, heights,
                                 PositionClusters(cls, 1, heights, EmptyMap))
  IN [resolved |-> cols,
      pos |-> PositionMap(items, cls, UpdateClusterCenters(cls, 1, placed)),
      nodeToPlaceholderCluster |-> st.n2pc]

\* ------------------------------------------------------------ routeEdge
\* midRight, had it taken a cluster's outline for a box of the usual width.
midRightOfBox(p) ==
  [x |-> (IF p.isCluster THEN p.x[1] ELSE p.x) + boxW, y |-> p.centerY]

\* midRight, midLeft (src/app.js 767-774)
midRight(p) ==
  IF p.isCluster THEN [x |-> p.clusterRight[1], y |-> p.centerY]
  ELSE [x |-> p.x + boxW, y |-> p.centerY]
midLeft(p) ==
  IF p.isCluster THEN [x |-> p.clusterLeft[1], y |-> p.centerY]
  ELSE [x |-> p.x, y |-> p.centerY]

\* betweenColsX (src/app.js 776-780)
betweenColsX(colA, colB) ==
  LET xRightA == ColX(colA) + boxW
      xLeftB == ColX(colB)
  IN (xRightA + xLeftB) \div 2

RECURSIVE Waypoints(_, _, _, _, _, _)
\* The placeholders of the intermediate columns (src/app.js 792-800).
Waypoints(parentId, childId, pos, n2pc, col, childCol) ==
  IF col >= childCol THEN <<>>
  ELSE LET clusterIdx == ClusterIdxOf(n2pc, ClusterKey(childId, parentId, col))
           phId == PhId(parentId, col, clusterIdx)
       IN (IF phId \in DOMAIN pos THEN <<pos[phId]>> ELSE <<>>)
          \o Waypoints(parentId, childId, pos, n2pc, col + 1, childCol)

RECURSIVE ThroughWaypointsDiagonal(_, _, _)
\* The way into each waypoint, had it gone straight to the waypoint's height.
ThroughWaypointsDiagonal(waypoints, i, prevY) ==
  IF i > Len(waypoints) THEN <<>>
  ELSE LET wp == waypoints[i]
           xHop == betweenColsX(wp.col - 1, wp.col)
       IN <<[x |-> xHop, y |-> wp.centerY], [x |-> xHop, y |-> wp.centerY]>>
          \o ThroughWaypointsDiagonal(waypoints, i + 1, wp.centerY)

RECURSIVE ThroughWaypoints(_, _, _)
\* The elbows into each waypoint (src/app.js 811-817).
ThroughWaypoints(waypoints, i, prevY) ==
  IF i > Len(waypoints) THEN <<>>
  ELSE LET wp == waypoints[i]
           xHop == betweenColsX(wp.col - 1, wp.col)
       IN <<[x |-> xHop, y |-> prevY], [x |-> xHop, y |-> wp.centerY]>>
          \o ThroughWaypoints(waypoints, i + 1, wp.centerY)

\* p.col of an entry of pos.
PosCol(p) == IF p.isCluster THEN p.col[1] ELSE p.col

\* routeEdge (src/app.js 782-827)
routeEdge(parentId, childId, pos, n2pc) ==
  IF parentId \notin DOMAIN pos \/ childId \notin DOMAIN pos THEN <<>>
  ELSE LET p == pos[parentId]
           c == pos[childId]
           S == midRight(p)
           E == midLeft(c)
           waypoints == Waypoints(parentId, childId, pos, n2pc,
                                  PosCol(p) + 1, PosCol(c))
       IN IF Len(waypoints) = 0
          THEN LET xHop == betweenColsX(PosCol(p), PosCol(c))
               IN <<S, [x |-> xHop, y |-> S.y], [x |-> xHop, y |-> E.y], E>>
          ELSE LET lastWp == Last(waypoints)
                   xHop == betweenColsX(lastWp.col, PosCol(c))
               IN <<S>> \o ThroughWaypoints(waypoints, 1, S.y)
                  \o <<[x |-> xHop, y |-> lastWp.centerY], [x |-> xHop, y |-> E.y], E>>

RECURSIVE EdgesTo(_, _, _, _, _)
\* One routed edge per listed parent of a child (src/app.js 920-925, 930-936).
EdgesTo(parentIds, childId, pos, n2pc, k) ==
  IF k > Len(parentIds) THEN <<>>
  ELSE <<[parent |-> parentIds[k], child |-> childId,
          pts |-> routeEdge(parentIds[k], childId, pos, n2pc)]>>
       \o EdgesTo(parentIds, childId, pos, n2pc, k + 1)

RECURSIVE ClusterEdges(_, _, _, _)
\* "Cluster-level parent edges" (src/app.js 919-926)
ClusterEdges(clusters, c, pos, n2pc) ==
  IF c > Len(clusters) THEN <<>>
  ELSE EdgesTo(clusters[c].parentIds, clusters[c].id, pos, n2pc, 1)
       \o ClusterEdges(clusters, c + 1, pos, n2pc)

RECURSIVE NodeEdges(_, _, _, _)
\* "Regular node edges" (src/app.js 929-937)
NodeEdges(nodes, i, pos, n2pc) ==
  IF i > Len(nodes) THEN <<>>
  ELSE EdgesTo(getLayoutParentIds(nodes[i]), nodes[i].id, pos, n2pc, 1)
       \o NodeEdges(nodes, i + 1, pos, n2pc)

\* The polylines showTree draws (src/app.js 917-937).
RoutedEdges(nodes, clusters, pos, n2pc) ==
  ClusterEdges(clusters, 1, pos, n2pc) \o NodeEdges(nodes, 1, pos, n2pc)

\* --------------------------------------------------- buildLayoutFromTree
\* A node of DATA.tree: [id, cluster, display, extra_cols, extra_parents,
\* items, children]; items and children are sequences of such nodes.
\* The state of the walk: st = [techs, colById, orderedIds, clusters], techs
\* being DATA.technologies with the layout objects the walk writes.

\* A technology of DATA.technologies.
Tech(id, layout) == [id |-> id, layout |-> layout, clusterNode |-> FALSE]

\* The column assumed for a first parent that is no structural parent and has
\* no column yet (src/app.js 323).
UnwalkedParentCol == 0

\* The column of a cluster node (src/app.js 209-218).
ClusterCol(treeNode, structuralParentId, structuralParentCol, colById) ==
  IF structuralParentId # <<>>
  THEN LET parentCol == IF structuralParentId \in DOMAIN colById
                        THEN colById[structuralParentId] ELSE structuralParentCol
       IN parentCol + 1 + treeNode.extra_cols
  ELSE treeNode.extra_cols

\* The parent list of a regular node (src/app.js 311-314).
TreeParents(treeNode, structuralParentId) ==
  (IF structuralParentId # <<>> THEN <<structuralParentId>> ELSE <<>>)
  \o treeNode.extra_parents

\* The column of a regular node (src/app.js 316-327).
RegularCol(treeNode, parents, structuralParentId, structuralParentCol, colById) ==
  IF Len(parents) > 0
  THEN LET firstParentCol ==
             IF parents[1] \in DOMAIN colById THEN colById[parents[1]]
             ELSE IF structuralParentId # <<>> THEN structuralParentCol
             ELSE UnwalkedParentCol
       IN firstParentCol + 1 + treeNode.extra_cols
  ELSE treeNode.extra_cols

\* layout.parent / layout.parents of a walked node (src/app.js 238-239, 331-335).
TreeLayout(col, parents) ==
  Layout(<<col>>, <<>>,
         IF Len(parents) = 1 THEN parents[1] ELSE <<>>,
         IF Len(parents) > 1 THEN parents ELSE <<>>,
         <<>>)

IsClusterItem(it) == it.cluster
IsTechItem(it) == ~it.cluster

RECURSIVE walk(_, _, _, _)
RECURSIVE walkItems(_, _, _, _)

\* "Walk items: each gets the cluster's column, no tree parent"
\* (src/app.js 275-290)
walkItems(techItems, clusterId, col, st) ==
  IF techItems = <<>> THEN st
  ELSE LET item == Head(techItems)
           t == ById(st.techs, item.id)
       IN IF t = 0 THEN walkItems(Tail(techItems), clusterId, col, st)
          ELSE LET st1 == [st EXCEPT
                             !.techs[t].layout = Layout(<<col>>, <<>>, <<>>, <<>>, clusterId),
                             !.colById = MapSet(@, item.id, col),
                             !.orderedIds = Append(@, item.id)]
                   st2 == walk(item.children, item.id, col, st1)
               IN walkItems(Tail(techItems), clusterId, col, st2)

\* buildLayoutFromTree.walk (src/app.js 205-343)
walk(treeNodes, structuralParentId, structuralParentCol, st) ==
  IF treeNodes = <<>> THEN st
  ELSE LET treeNode == Head(treeNodes)
           rest == Tail(treeNodes)
       IN
    IF treeNode.cluster
    THEN LET col == ClusterCol(treeNode, structuralParentId, structuralParentCol,
                               st.colById)
             st1 == [st EXCEPT !.colById = MapSet(@, treeNode.id, col)]
         IN IF treeNode.display = "node"
            THEN LET parents == IF structuralParentId # <<>>
                                THEN <<structuralParentId>> ELSE <<>>
                     synthTech == [id |-> treeNode.id,
                                   layout |-> TreeLayout(col, parents),
                                   clusterNode |-> TRUE]
                     st2 == [st1 EXCEPT !.techs = Append(@, synthTech),
                                        !.orderedIds = Append(@, treeNode.id)]
                     st3 == walk(treeNode.items \o treeNode.children, treeNode.id,
                                 col, st2)
                 IN walk(rest, structuralParentId, structuralParentCol, st3)
            ELSE LET techItems == SelectSeq(treeNode.items, IsTechItem)
                     nestedClusterItems == SelectSeq(treeNode.items, IsClusterItem)
                     itemIds == [k \in 1..Len(techItems) |-> techItems[k].id]
                     parentIds == IF structuralParentId # <<>>
                                  THEN <<structuralParentId>> ELSE <<>>
                     st2 == IF Len(itemIds) > 0
                            THEN [st1 EXCEPT !.clusters =
                                    Append(@, [id |-> treeNode.id, col |-> <<col>>,
                                               members |-> itemIds,
                                               parentIds |-> parentIds])]
                            ELSE st1
                     st3 == walkItems(techItems, treeNode.id, col, st2)
                     st4 == walk(nestedClusterItems, treeNode.id, col, st3)
                     st5 == walk(treeNode.children, treeNode.id, col, st4)
                 IN walk(rest, structuralParentId, structuralParentCol, st5)
    ELSE LET t == ById(st.techs, treeNode.id) IN
         IF t = 0 THEN walk(rest, structuralParentId, structuralParentCol, st)
         ELSE LET parents == TreeParents(treeNode, structuralParentId)
                  col == RegularCol(treeNode, parents, structuralParentId,
                                    structuralParentCol, st.colById)
                  st1 == [st EXCEPT !.colById = MapSet(@, treeNode.id, col),
                                    !.techs[t].layout = TreeLayout(col, parents),
                                    !.orderedIds = Append(@, treeNode.id)]
                  st2 == walk(treeNode.children, treeNode.id, col, st1)
              IN walk(rest, structuralParentId, structuralParentCol, st2)

\* orderMap.has(id) ? orderMap.get(id) : Infinity, as a rank: the last index of
\* id in orderedIds, or one past its end (src/app.js 349-353).
OrderRank(orderedIds, id) ==
  LET hits == {i \in 1..Len(orderedIds) : orderedIds[i] = id}
  IN IF hits = {} THEN Len(orderedIds) + 1
     ELSE CHOOSE i \in hits : \A j \in hits : j <= i

\* The final sort, had it kept only the technologies the walk reached.
SortByOrderReachedOnly(techs, orderedIds) ==
  LET Reached(t) == \E i \in 1..Len(orderedIds) : orderedIds[i] = t.id
  IN SelectSeq(techs, Reached)

RECURSIVE SortByOrder(_, _)
\* DATA.technologies.sort(by orderMap), a stable sort (src/app.js 350-354).
SortByOrder(techs, orderedIds) ==
  IF techs = <<>> THEN <<>>
  ELSE LET x == Last(techs)
           r == SortByOrder(SubSeq(techs, 1, Len(techs) - 1), orderedIds)
           k == Cardinality({i \in 1..Len(r) :
                  OrderRank(orderedIds, r[i].id) <= OrderRank(orderedIds, x.id)})
       IN SubSeq(r, 1, k) \o <<x>> \o SubSeq(r, k + 1, Len(r))

\* buildLayoutFromTree (src/app.js 194-355): DATA.technologies and
\* DATA.clusters after it.
buildLayoutFromTree(tree, techs) ==
  LET st == walk(tree, <<>>, 0,
                 [techs |-> techs, colById |-> EmptyMap, orderedIds |-> <<>>,
                  clusters |-> <<>>])
  IN [technologies |-> SortByOrder(st.techs, st.orderedIds),
      clusters |-> st.clusters,
      colById |-> st.colById]

\* ------------------------------------------------------------ the inputs
\* layout: { parent } for one parent, { parents } for several (DATA_YAML_GUIDE.md).
DirectLayout(parentIds, offset, col) ==
  Layout(col, offset,
         IF Len(parentIds) = 1 THEN parentIds[1] ELSE <<>>,
         IF Len(parentIds) > 1 THEN parentIds ELSE <<>>,
         <<>>)

\* The layout objects the i-th technology of data.yaml may declare: a root; a
\* root with an explicit column; one parent listed before it, with or without
\* an offset (also an offset that keeps or lowers the column); two parents;
\* a parent id nobody has; a parent listed after it; an explicit column
\* besides a parent.
DirectLayouts(i) ==
  LET earlier == {NodeId(j) : j \in 1..(i - 1)}
      prev == {NodeId(j) : j \in {i - 1} \cap (1..MaxNodes)}
  IN {DirectLayout(<<>>, <<>>, <<>>), DirectLayout(<<>>, <<>>, <<1>>),
      DirectLayout(<<Dangling>>, <<>>, <<>>),
      DirectLayout(<<NodeId(i + 1)>>, <<>>, <<>>)}
     \cup {DirectLayout(<<p>>, off, <<>>) : p \in earlier, off \in {<<>>, <<2>>, <<3>>}}
     \cup {DirectLayout(<<p>>, off, <<>>) : p \in prev, off \in {<<0>>, <<-1>>}}
     \cup {DirectLayout(<<p>>, <<>>, col) : p \in prev, col \in {<<0>>, <<2>>}}
     \cup {DirectLayout(pq, <<>>, <<>>) : pq \in {x \in earlier \X earlier : x[1] # x[2]}}
     \cup {DirectLayout(pq, <<>>, <<>>) :
             pq \in {<<p, Dangling>> : p \in prev} \cup {<<Dangling, p>> : p \in prev}}

RECURSIVE DirectInputs(_)
\* The technology lists of n entries.
DirectInputs(n) ==
  IF n = 0 THEN {<<>>}
  ELSE {Append(s, Tech(NodeId(n), lay)) :
          s \in DirectInputs(n - 1), lay \in DirectLayouts(n)}

\* The clusters: key of a data.yaml without a tree: key (DATA_YAML_GUIDE.md
\* 129-138): id, label and members, neither col nor parentIds.
GuideCluster(members) ==
  [id |-> <<"k">>, col |-> <<>>, members |-> members, parentIds |-> <<>>]

\* The clusters a list of n technologies may come with: one member, all of
\* them, or a member id nobody has.
GuideClusters(n) ==
  {<<GuideCluster(m)>> : m \in {<<NodeId(1)>>, [i \in 1..n |-> NodeId(i)],
                                <<NodeId(n), Dangling>>}}

\* Technology lists with kebab-case ids (DATA_YAML_GUIDE.md 24, 149): c and
\* b-c are roots, a-b and a their children, r a root or a child of c.
KebabInputs ==
  LET c == <<"c">>
      bc == <<"b", "c">>
  IN {<<Tech(c, NoLayout), Tech(bc, NoLayout),
        Tech(<<"a", "b">>, DirectLayout(ps, o1, <<>>)),
        Tech(<<"r">>, DirectLayout(pr, <<>>, <<>>)),
        Tech(<<"a">>, DirectLayout(<<bc>>, o2, <<>>))>> :
        ps \in {<<c>>, <<c, bc>>}, o1 \in {<<>>, <<2>>},
        pr \in {<<>>, <<c>>}, o2 \in {<<>>, <<2>>}}

\* Technology lists with kebab-case ids in which two parents have skip edges
\* through the same column: x is a child of c and b-c, a-b a child of c, a a
\* child of b-c, all two columns to the right; r is listed between a-b and a,
\* a root or a child of c.
KebabSiblingInputs ==
  LET c == <<"c">>
      bc == <<"b", "c">>
  IN {<<Tech(c, NoLayout), Tech(bc, NoLayout),
        Tech(<<"x">>, DirectLayout(<<c, bc>>, <<2>>, <<>>)),
        Tech(<<"a", "b">>, DirectLayout(<<c>>, <<2>>, <<>>)),
        Tech(<<"r">>, DirectLayout(pr, <<>>, <<>>)),
        Tech(<<"a">>, DirectLayout(<<bc>>, <<2>>, <<>>))>> : pr \in {<<>>, <<c>>}}

\* Technology lists in which the skip edges of one parent are split
\* differently in two intermediate columns: b and d are children of a three
\* columns to its right, c is a child of a listed between them, one or two
\* columns to the right of a.
SplitInputs ==
  {<<Tech(NodeId(1), NoLayout),
     Tech(NodeId(2), DirectLayout(<<NodeId(1)>>, <<3>>, <<>>)),
     Tech(NodeId(3), DirectLayout(<<NodeId(1)>>, o, <<>>)),
     Tech(NodeId(4), DirectLayout(<<NodeId(1)>>, <<3>>, <<>>))>> : o \in {<<>>, <<2>>}}

\* Technology lists with the kebab-case ids reader and reader-notes.
ReaderInputs ==
  {<<Tech(<<"reader">>, NoLayout),
     Tech(<<"reader", "notes">>, DirectLayout(<<<<"reader">>>>, o, <<>>))>> :
     o \in {<<>>, <<2>>}}

\* Technology lists in which siblings differ in subtree height: b and e are
\* children of a, c and d children of b.
StackInputs ==
  {<<Tech(NodeId(1), NoLayout),
     Tech(NodeId(2), DirectLayout(<<NodeId(1)>>, <<>>, <<>>)),
     Tech(NodeId(3), DirectLayout(<<NodeId(2)>>, o, <<>>)),
     Tech(NodeId(4), DirectLayout(<<NodeId(2)>>, <<>>, <<>>)),
     Tech(NodeId(5), DirectLayout(<<NodeId(1)>>, <<>>, <<>>))>> : o \in {<<>>, <<2>>}}

RECURSIVE ClimbsPastCol(_, _, _)
\* Climbs, had getCol looked up the first parent of a node with an explicit
\* column as well.
ClimbsPastCol(nodes, id, fuel) ==
  LET i == ById(nodes, id) IN
  IF i = 0 THEN TRUE
  ELSE IF getLayoutParentIds(nodes[i]) = <<>> THEN TRUE
  ELSE fuel > 0 /\ ClimbsPastCol(nodes, getLayoutParentIds(nodes[i])[1], fuel - 1)

RECURSIVE Climbs(_, _, _)
\* getCol(id) returns within fuel nested calls.
Climbs(nodes, id, fuel) ==
  LET i == ById(nodes, id) IN
  IF i = 0 THEN TRUE
  ELSE IF nodes[i].layout.col # <<>> \/ getLayoutParentIds(nodes[i]) = <<>> THEN TRUE
  ELSE fuel > 0 /\ Climbs(nodes, getLayoutParentIds(nodes[i])[1], fuel - 1)

\* Every call of getCol by resolveColumns returns: a chain of first parents
\* that is longer than the list of nodes passes some node twice, and the memo
\* has no entry for a node whose call has not returned.
Acyclic(nodes) == \A i \in 1..Len(nodes) : Climbs(nodes, nodes[i].id, Len(nodes))

\* The trees of data.yaml, written down in walk order as flat lists: entry n is
\* [up, kind, role, extra_cols, extra_parents], up being the entry it is nested
\* in (0: top level), kind "tech", "unknown" (an id DATA.technologies lacks),
\* "cluster" or "node" (a cluster with display: node), role "item" or "child".
MaxTreeNodes == 3

ClusterNames == <<"k1", "k2", "k3", "k4", "k5", "k6">>
\* Technology ids run against the walk order, so that the final sort of
\* DATA.technologies has work to do.
FlatId(n, kind) ==
  IF kind = "tech" THEN NodeId(Len(NodeNames) + 1 - n)
  ELSE IF kind = "unknown" THEN Dangling
  ELSE <<ClusterNames[n]>>
\* A technology of DATA.technologies that the tree does not mention.
OutsideId == <<"z">>

Flat(up, kind, role, extra_cols, extra_parents) ==
  [up |-> up, kind |-> kind, role |-> role, extra_cols |-> extra_cols,
   extra_parents |-> extra_parents]

RECURSIVE PathTo(_, _)
\* n and the entries it is nested in.
PathTo(s, n) == IF n = 0 THEN {} ELSE {n} \cup PathTo(s, s[n].up)

\* The entries a flat list s can be continued with.
FlatNext(s) ==
  LET ups == {0} \cup PathTo(s, Len(s))
      Kids(up) == {j \in 1..Len(s) : s[j].up = up}
      InCluster(up) == up # 0 /\ s[up].kind = "cluster"
      \* items come before children, technology items before cluster items
      ItemOk(up) == InCluster(up) /\ \A j \in Kids(up) : s[j].role = "item"
      TechItemOk(up) == ItemOk(up) /\ \A j \in Kids(up) : s[j].kind # "cluster"
      NoExtraYet == \A j \in 1..Len(s) : s[j].extra_parents = <<>>
      Others(up) == {FlatId(j, s[j].kind) : j \in (1..Len(s)) \ {up}} \cup {Dangling}
  IN UNION {
       {Flat(up, "tech", "child", e, <<>>) : e \in {0, 1}}
       \cup {Flat(up, "cluster", "child", e, <<>>) : e \in {0, 1}}
       \cup {Flat(up, "node", "child", 0, <<>>), Flat(up, "unknown", "child", 0, <<>>)}
       \cup (IF NoExtraYet
             THEN {Flat(up, "tech", "child", 0, <<x>>) : x \in Others(up)} ELSE {})
       \cup (IF TechItemOk(up)
             THEN {Flat(up, "tech", "item", 0, <<>>), Flat(up, "unknown", "item", 0, <<>>)}
             ELSE {})
       \cup (IF ItemOk(up)
             THEN {Flat(up, "cluster", "item", e, <<>>) : e \in {0, 1}} ELSE {})
       : up \in ups}

RECURSIVE FlatTrees(_)
\* The flat lists of n entries.
FlatTrees(n) ==
  IF n = 0 THEN {<<>>}
  ELSE UNION {{Append(s, x) : x \in FlatNext(s)} : s \in FlatTrees(n - 1)}

RECURSIVE Nested(_, _)
RECURSIVE NestedUnder(_, _, _, _)
\* The tree nodes of the entries from j on that are nested in up with a role.
NestedUnder(s, up, role, j) ==
  IF j > Len(s) THEN <<>>
  ELSE (IF s[j].up = up /\ s[j].role = role THEN <<Nested(s, j)>> ELSE <<>>)
       \o NestedUnder(s, up, role, j + 1)

\* The node of DATA.tree that entry j stands for.
Nested(s, j) ==
  [id |-> FlatId(j, s[j].kind),
   cluster |-> s[j].kind \in {"cluster", "node"},
   display |-> IF s[j].kind = "node" THEN "node" ELSE "",
   extra_cols |-> s[j].extra_cols,
   extra_parents |-> s[j].extra_parents,
   items |-> NestedUnder(s, j, "item", j + 1),
   children |-> NestedUnder(s, j, "child", j + 1)]

\* DATA.tree of a flat list.
TreeOf(s) == NestedUnder(s, 0, "child", 1)

\* Larger trees: a skip edge past a cluster's column, with the cluster listed
\* before or after the skipping child and holding one or two members; the
\* children of a cluster; siblings one of which has children of its own; two
\* roots, the second with a cluster below it; a root and a top-level cluster
\* that has a child.
LargerTrees ==
  LET t(up, e) == Flat(up, "tech", "child", e, <<>>)
      k(up) == Flat(up, "cluster", "child", 0, <<>>)
      m(up) == Flat(up, "tech", "item", 0, <<>>)
  IN {<<t(0, 0), k(1), m(2), t(1, 1)>>,
      <<t(0, 0), t(1, 1), k(1), m(3)>>,
      <<t(0, 0), k(1), m(2), m(2), t(1, 1)>>,
      <<t(0, 0), k(1), m(2), t(2, 0), t(2, 0)>>,
      <<t(0, 0), t(1, 0), t(2, 0), t(2, 0), t(1, 0)>>,
      <<t(0, 0), t(0, 0), k(2), m(3)>>,
      <<t(0, 0), k(0), m(2), t(2, 0)>>}

RECURSIVE TechsFrom(_, _)
\* DATA.technologies of a flat list: its technologies, in the order of their ids.
TechsFrom(s, j) ==
  IF j = 0 THEN <<>>
  ELSE (IF s[j].kind = "tech" THEN <<Tech(FlatId(j, "tech"), NoLayout)>> ELSE <<>>)
       \o TechsFrom(s, j - 1)

\* ------------------------------------------------------------- the state
VARIABLES
  tree,           \* DATA.tree (<<>>: data.yaml has no tree: key)
  nodes,          \* DATA.technologies
  clusters,       \* DATA.clusters
  pc,             \* the position in init() / showTree()
  declared,       \* DATA.technologies as the current resolveColumns() found them
  resolved,       \* resolveColumns: the returned Map
  placeholders,   \* computePositions: placeholders
  n2pc,           \* computePositions: nodeToPlaceholderCluster
  layoutParents,  \* computePositions: layoutParents
  subtreeHeight,  \* computePositions: subtreeHeight
  relY,           \* computePositions: relY
  colIdx,         \* computePositions: the index in sortedCols of the column loop
  pos,            \* computePositions: pos
  edges,          \* showTree: the polylines of routeEdge
  calls,          \* how many times showTree() has been entered
  authored,       \* DATA.technologies as init() and the page's author left them
  edited,         \* a descriptor was changed between two showTree() calls
  hash,           \* route: window.location.hash without its leading # or #/
  currentView,    \* currentView ("none" for null)
  currentProtocolId,  \* currentProtocolId (<<>> for null)
  scrollObserver, \* scrollObserver holds a cleanup reference (is not null)
  scrollListeners,  \* how many onScroll listeners are registered on window
  firstPos,       \* pos of the first showTree()
  firstEdges      \* the polylines of the first showTree()

vars == <<tree, nodes, clusters, pc, declared, resolved, placeholders, n2pc, layoutParents,
          subtreeHeight, relY, colIdx, pos, edges, calls, authored, edited,
          hash, currentView, currentProtocolId, scrollObserver, scrollListeners,
          firstPos, firstEdges>>

\* How many times the tree page is shown.
MaxCalls == 2

\* The descriptors, and what is only recorded about the calls.
data == <<tree, nodes, clusters>>
history == <<declared, calls, edited, firstPos, firstEdges>>
spy == <<scrollObserver, scrollListeners>>
view == <<hash, currentView, currentProtocolId, spy>>

allItems == AllItems(nodes, placeholders)
sortedCols == SortedCols(allItems)

InitLayout ==
  /\ declared = <<>>
  /\ resolved = EmptyMap
  /\ placeholders = <<>>
  /\ n2pc = EmptyMap
  /\ layoutParents = EmptyMap
  /\ subtreeHeight = EmptyMap
  /\ relY = EmptyMap
  /\ colIdx = 0
  /\ pos = EmptyMap
  /\ edges = <<>>
  /\ calls = 1
  /\ authored = nodes
  /\ edited = FALSE
  /\ hash = <<>>
  /\ currentView = "none"
  /\ currentProtocolId = <<>>
  /\ scrollObserver = FALSE
  /\ scrollListeners = 0
  /\ firstPos = EmptyMap
  /\ firstEdges = <<>>

\* data.yaml without a tree: key: the layout objects are the YAML's.
InitDirect ==
  /\ tree = <<>>
  /\ \/ /\ nodes \in UNION {DirectInputs(n) : n \in 1..MaxNodes}
        /\ clusters = <<>>
     \/ /\ nodes \in UNION {DirectInputs(n) : n \in 1..(MaxNodes - 1)}
        /\ clusters \in GuideClusters(Len(nodes))
     \/ /\ nodes \in KebabInputs \cup KebabSiblingInputs \cup StackInputs
                     \cup SplitInputs \cup ReaderInputs
        /\ clusters = <<>>
  /\ pc = "init"
  /\ InitLayout

\* data.yaml with a tree: key, and possibly a technology the tree leaves out.
InitTree ==
  /\ \E s \in UNION {FlatTrees(n) : n \in 1..MaxTreeNodes} \cup LargerTrees :
       /\ \E j \in 1..Len(s) : s[j].kind = "tech"
       /\ tree = TreeOf(s)
       /\ nodes \in {TechsFrom(s, Len(s)),
                     <<Tech(OutsideId, NoLayout)>> \o TechsFrom(s, Len(s))}
  /\ clusters = <<>>
  /\ pc = "init"
  /\ InitLayout

\* init(): buildLayoutFromTree(), then route(), which finds the empty hash
\* and enters showTree() (src/app.js 42, 52, 139-161, 194-355, 838-839)
BuildLayoutFromTree ==
  /\ pc = "init"
  /\ IF tree = <<>>
     THEN UNCHANGED <<nodes, clusters>>
     ELSE LET built == buildLayoutFromTree(tree, nodes)
          IN /\ nodes' = built.technologies
             /\ clusters' = built.clusters
  /\ authored' = nodes'
  /\ currentView' = "tree"
  /\ currentProtocolId' = <<>>
  /\ pc' = "ready"
  /\ UNCHANGED <<tree, hash, spy, history, resolved, placeholders, n2pc, layoutParents,
                 subtreeHeight, relY, colIdx, pos, edges>>

\* computePositions: resolveColumns(nodes) (src/app.js 428). On a cycle of
\* first parents getCol calls itself until the call stack is exhausted
\* (src/app.js 397); the RangeError is caught nowhere and the page is not drawn.
ResolveColumns ==
  /\ pc = "ready"
  /\ declared' = nodes
  /\ IF Acyclic(nodes)
     THEN /\ resolved' = resolveColumns(nodes)
          /\ nodes' = WriteBack(nodes, resolved')
          /\ pc' = "resolved"
     ELSE /\ resolved' = resolved
          /\ nodes' = nodes
          /\ pc' = "overflow"
  /\ UNCHANGED <<tree, clusters, view, calls, authored, edited, firstPos, firstEdges,
                 placeholders, n2pc,
                 layoutParents, subtreeHeight, relY, colIdx, pos, edges>>

\* computePositions, step 1 and layoutParents (src/app.js 442-550)
CreatePlaceholders ==
  /\ pc = "resolved"
  /\ LET st == SynthesizePlaceholders(nodes, clusters)
     IN /\ placeholders' = st.placeholders
        /\ n2pc' = st.n2pc
  /\ layoutParents' = LayoutParents(nodes, clusters, n2pc')
  /\ pc' = "synthesized"
  /\ UNCHANGED <<data, view, authored, history, resolved, subtreeHeight, relY, colIdx, pos, edges>>

\* computePositions, steps 2 and 3 (src/app.js 552-611)
ComputeSubtreeHeights ==
  /\ pc = "synthesized"
  /\ subtreeHeight' = SubtreeHeights(allItems, layoutParents, clusters)
  /\ pc' = "heights"
  /\ UNCHANGED <<data, view, authored, history, resolved, placeholders, n2pc, layoutParents,
                 relY, colIdx, pos, edges>>

\* computePositions, step 4: the cluster items (src/app.js 613-639)
PositionClusterItems ==
  /\ pc = "heights"
  /\ relY' = PositionClusters(clusters, 1, subtreeHeight, EmptyMap)
  /\ colIdx' = 1
  /\ pc' = "place"
  /\ UNCHANGED <<data, view, authored, history, resolved, placeholders, n2pc, layoutParents,
                 subtreeHeight, pos, edges>>

\* computePositions, step 4: one column placed (src/app.js 641-690)
PlaceColumnItems ==
  /\ pc = "place"
  /\ relY' = PlaceColumn(ColumnItems(allItems, sortedCols[colIdx]), layoutParents,
                         subtreeHeight, relY)
  /\ pc' = "sweep"
  /\ UNCHANGED <<data, view, authored, history, resolved, placeholders, n2pc, layoutParents,
                 subtreeHeight, colIdx, pos, edges>>

\* computePositions, step 4: the collision resolution of that column
\* (src/app.js 692-713)
ResolveCollisions ==
  /\ pc = "sweep"
  /\ relY' = SweepColumn(ColumnItems(allItems, sortedCols[colIdx]), relY)
  /\ colIdx' = colIdx + 1
  /\ pc' = IF colIdx < Len(sortedCols) THEN "place" ELSE "placed"
  /\ UNCHANGED <<data, view, authored, history, resolved, placeholders, n2pc, layoutParents,
                 subtreeHeight, pos, edges>>

\* computePositions: the cluster centers and step 5 (src/app.js 715-763)
BuildPositionMap ==
  /\ pc = "placed"
  /\ relY' = UpdateClusterCenters(clusters, 1, relY)
  /\ pos' = PositionMap(allItems, clusters, relY')
  /\ pc' = "positioned"
  /\ UNCHANGED <<data, view, authored, history, resolved, placeholders, n2pc, layoutParents,
                 subtreeHeight, colIdx, edges>>

\* showTree: the node boxes and the edges (src/app.js 879-937). Reading p.x of
\* a technology that has no entry in pos throws a TypeError (src/app.js 882,
\* 899), which nothing catches: the page is not drawn.
RouteEdges ==
  /\ pc = "positioned"
  /\ IF \E i \in 1..Len(nodes) : nodes[i].id \notin DOMAIN pos
     THEN /\ pc' = "aborted"
          /\ edges' = edges
     ELSE /\ edges' = RoutedEdges(nodes, clusters, pos, n2pc)
          /\ pc' = "done"
  /\ UNCHANGED <<data, view, authored, history, resolved, placeholders, n2pc, layoutParents,
                 subtreeHeight, relY, colIdx, pos>>

\* route() to the tree page: showTree() starts over on the descriptors the
\* previous call left (src/app.js 159, 837-843).
Rerun ==
  /\ pc = "done"
  /\ calls < MaxCalls
  /\ calls' = calls + 1
  /\ firstPos' = IF calls = 1 THEN pos ELSE firstPos
  /\ firstEdges' = IF calls = 1 THEN edges ELSE firstEdges
  /\ pc' = "ready"
  /\ resolved' = EmptyMap
  /\ placeholders' = <<>>
  /\ n2pc' = EmptyMap
  /\ layoutParents' = EmptyMap
  /\ subtreeHeight' = EmptyMap
  /\ relY' = EmptyMap
  /\ colIdx' = 0
  /\ pos' = EmptyMap
  /\ edges' = <<>>
  /\ UNCHANGED <<tree, nodes, clusters, declared, authored, edited>>

\* What the page's author may change on descriptor i between two calls: the
\* offset, the parent (to the first other technology), or the explicit column.
Edits(ns, i) ==
  LET lay == ns[i].layout
      others == {ns[j].id : j \in (1..Len(ns)) \cap {IF i = 1 THEN 2 ELSE 1}}
  IN (IF getLayoutParentIds(ns[i]) # <<>>
      THEN {[lay EXCEPT !.offset = IF @ = <<2>> THEN <<>> ELSE <<2>>]} ELSE {})
     \cup {[lay EXCEPT !.parent = p, !.parents = <<>>] :
             p \in others \ {lay.parent}}
     \cup (IF lay.col # <<>> THEN {[lay EXCEPT !.col = <<@[1] + 1>>]} ELSE {})

\* Between two showTree() calls the author changes one field of one
\* descriptor object, the same object the earlier call has written to; then
\* route() shows the tree page again.
EditDescriptor ==
  /\ pc = "done"
  /\ calls < MaxCalls
  /\ ~edited
  /\ currentView = "tree"
  /\ \E i \in 1..Len(nodes) : \E lay \in Edits(authored, i) :
       /\ authored' = [authored EXCEPT ![i].layout = lay]
       /\ Acyclic(authored')
       /\ nodes' = [nodes EXCEPT ![i].layout.offset = lay.offset,
                                 ![i].layout.parent = lay.parent,
                                 ![i].layout.parents = lay.parents,
                                 ![i].layout.col =
                                   IF lay.col # authored[i].layout.col
                                   THEN lay.col ELSE @]
  /\ edited' = TRUE
  /\ calls' = calls + 1
  /\ firstPos' = IF calls = 1 THEN pos ELSE firstPos
  /\ firstEdges' = IF calls = 1 THEN edges ELSE firstEdges
  /\ pc' = "ready"
  /\ resolved' = EmptyMap
  /\ placeholders' = <<>>
  /\ n2pc' = EmptyMap
  /\ layoutParents' = EmptyMap
  /\ subtreeHeight' = EmptyMap
  /\ relY' = EmptyMap
  /\ colIdx' = 0
  /\ pos' = EmptyMap
  /\ edges' = <<>>
  /\ UNCHANGED <<tree, clusters, declared, view>>

\* window.location.hash: empty, or a mark "#" or "#/" before the rest, the
\* rest being an id, a word no technology has, or a reader anchor.
LocationHashes ==
  {[mark |-> "", rest |-> <<>>]}
  \cup {[mark |-> m, rest |-> r] :
          m \in {"#", "#/"},
          r \in {<<>>, <<"nope">>, <<"reader">>, <<"reader", "notes">>}
                \cup {nodes[i].id : i \in 1..Len(nodes)}}

\* window.location.hash.replace(/^#\/?/, '') (src/app.js 141)
StripHash(raw) == raw.rest

\* hash === 'reader' || hash.startsWith('reader-') (src/app.js 142)
IsReaderHash(h) == h # <<>> /\ h[1] = "reader"

\* hash && DATA.technologies.find(t => t.id === hash && !t._clusterNode)
\* (src/app.js 156)
IsProtocolHash(h) ==
  h # <<>> /\ \E i \in 1..Len(nodes) : nodes[i].id = h /\ ~nodes[i].clusterNode

\* The state of the scroll spy: whether scrollObserver is set, and the number
\* of onScroll listeners on window.
SpyState(observer, listeners) == [observer |-> observer, listeners |-> listeners]

\* cleanup, had it dropped the reference without calling disconnect().
cleanupWithoutDisconnect(st) == SpyState(FALSE, st.listeners)

\* cleanup (src/app.js 163-168): disconnect() removes the listener it was
\* stored for (1589-1593).
cleanup(st) ==
  IF st.observer THEN SpyState(FALSE, st.listeners - 1) ELSE st

\* The reader page has TOC links and articles: showReader renders the entries
\* reachable from allRoots, and a technology is a root when none of its
\* parents is a technology (src/app.js 1276-1316, 1331, 1356).
ReaderHasEntries(ns) ==
  \E i \in 1..Len(ns) :
    \A k \in 1..Len(getLayoutParentIds(ns[i])) :
      ById(ns, getLayoutParentIds(ns[i])[k]) = 0

\* setupReaderScrollSpy (src/app.js 1558-1594)
setupReaderScrollSpy(st, ns) ==
  IF ~ReaderHasEntries(ns) THEN st
  ELSE SpyState(TRUE, st.listeners + 1)

\* The registered listeners the model counts up to.
MaxListeners == 3

\* route() on a hashchange (src/app.js 139-161), with showReader's and
\* showDetail's assignments (1136-1137, 1242-1243) and showTree's (838-839).
Route ==
  /\ pc = "done"
  /\ scrollListeners < MaxListeners
  /\ \E raw \in LocationHashes :
       LET h == StripHash(raw)
           cleaned == cleanup(SpyState(scrollObserver, scrollListeners))
           after == IF IsReaderHash(h) THEN setupReaderScrollSpy(cleaned, nodes)
                    ELSE cleaned
       IN
       /\ hash' = h
       /\ scrollObserver' = after.observer
       /\ scrollListeners' = after.listeners
       /\ IF IsReaderHash(h)
          THEN /\ currentView' = "reader"
               /\ currentProtocolId' = IF currentView # "reader" THEN <<>>
                                       ELSE currentProtocolId
               /\ UNCHANGED <<data, authored, history, pc, resolved, placeholders,
                              n2pc, layoutParents, subtreeHeight, relY, colIdx,
                              pos, edges>>
          ELSE IF IsProtocolHash(h)
          THEN /\ currentView' = "detail"
               /\ currentProtocolId' = h
               /\ UNCHANGED <<data, authored, history, pc, resolved, placeholders,
                              n2pc, layoutParents, subtreeHeight, relY, colIdx,
                              pos, edges>>
          ELSE /\ currentView' = "tree"
               /\ currentProtocolId' = <<>>
               /\ Rerun

Init == InitDirect

Next ==
  \/ BuildLayoutFromTree
  \/ ResolveColumns
  \/ CreatePlaceholders
  \/ ComputeSubtreeHeights
  \/ PositionClusterItems
  \/ PlaceColumnItems
  \/ ResolveCollisions
  \/ BuildPositionMap
  \/ RouteEdges
  \/ Route
  \/ EditDescriptor

Spec == Init /\ [][Next]_vars

\* The pages whose data.yaml has a tree: key.
SpecTree == InitTree /\ [][Next]_vars

\* ------------------------------------------------------------ the claims
\* resolveColumns() has returned in the current showTree().
ColumnsResolved == pc \notin {"init", "ready", "overflow"}

\* The entities resolveColumns() found with parents but without explicit column.
Inferred == {i \in 1..Len(declared) :
               /\ declared[i].layout.col = <<>>
               /\ getLayoutParentIds(declared[i]) # <<>>}
FirstParent(i) == getLayoutParentIds(declared[i])[1]
OffsetOf(i) == IF declared[i].layout.offset # <<>>
               THEN declared[i].layout.offset[1] ELSE 1

C8_ColumnsAreNaturals ==
  ColumnsResolved =>
    /\ \A i \in 1..Len(nodes) :
         /\ nodes[i].id \in DOMAIN resolved
         /\ resolved[nodes[i].id] \in Nat
    /\ \A c \in 1..Len(clusters) :
         /\ clusters[c].col # <<>>
         /\ clusters[c].col[1] \in Nat

\* The top-level technologies of the tree that the walk has given a layout:
\* they have no structural parent.
TreeRoots == {k \in 1..Len(tree) : ~tree[k].cluster /\ ById(nodes, tree[k].id) # 0}

\* C9: an entity with no parents and no explicit column gets column 0, from
\* resolveColumns and from the tree walk (a tree root with no parents at all).
C9_RootsGetColumnZero ==
  /\ ColumnsResolved =>
       \A i \in 1..Len(declared) :
         (declared[i].layout.col = <<>> /\ getLayoutParentIds(declared[i]) = <<>>)
           => resolved[declared[i].id] = 0
  /\ pc # "init" =>
       \A k \in TreeRoots :
         tree[k].extra_parents = <<>>
           => nodes[ById(nodes, tree[k].id)].layout.col = <<0>>

\* C10: an entity whose parent reference names an id that no entity has is
\* resolved as if it had no parent: it gets column 0.
C10_DanglingParentIsRoot ==
  ColumnsResolved =>
    \A i \in Inferred :
      (\A k \in 1..Len(getLayoutParentIds(declared[i])) :
         ById(declared, getLayoutParentIds(declared[i])[k]) = 0)
        => resolved[declared[i].id] = 0

\* showTree() has its position map.
Positioned == pc \in {"positioned", "done"}

IsEntity(id) == ById(nodes, id) # 0

\* The placeholders that have a box in column col.
PlaceholdersAt(col) ==
  {placeholders[k].id : k \in {j \in 1..Len(placeholders) :
                                 /\ placeholders[j].col = col
                                 /\ placeholders[j].id \in DOMAIN pos}}

\* The polyline crosses the box of placeholder ph on a horizontal segment at
\* the placeholder's center.
PassesThrough(pts, ph) ==
  \E i \in 1..(Len(pts) - 1) :
    /\ pts[i].y = pos[ph].centerY
    /\ pts[i + 1].y = pos[ph].centerY
    /\ pts[i].x <= pos[ph].x
    /\ pts[i + 1].x >= pos[ph].x + boxW

\* The drawn edges between two entities that span more than one column.
SkipEdges ==
  {k \in 1..Len(edges) :
     /\ IsEntity(edges[k].parent) /\ IsEntity(edges[k].child)
     /\ edges[k].parent \in DOMAIN pos /\ edges[k].child \in DOMAIN pos
     /\ pos[edges[k].child].col - pos[edges[k].parent].col > 1}

\* C2: the polyline of every declared parent-child edge between entities with
\* childColumn - parentColumn = k > 1 passes through exactly k - 1 placeholder
\* waypoints, one in each skipped column, at that placeholder's center.
C2_OnePlaceholderPerSkippedColumn ==
  pc = "done" =>
    \A k \in SkipEdges :
      LET e == edges[k]
          parentCol == pos[e.parent].col
          childCol == pos[e.child].col
      IN /\ Len(e.pts) = 2 * (childCol - parentCol) + 2
         /\ \A col \in (parentCol + 1)..(childCol - 1) :
              Cardinality({ph \in PlaceholdersAt(col) : PassesThrough(e.pts, ph)}) = 1

\* The items that have a box.
Boxed == {i \in 1..Len(allItems) : allItems[i].id \in DOMAIN pos}
BoxY(i) == pos[allItems[i].id].y

\* C3: after the whole pipeline any two items of one column, placeholders and
\* cluster members included, have boxes at least the vertical gap apart, and
\* they lie top to bottom in input order.
C3_ColumnGapAndOrder ==
  Positioned =>
    \A i, j \in Boxed :
      (i # j /\ allItems[i].col = allItems[j].col) =>
        /\ allItems[i].inputIdx < allItems[j].inputIdx
             => BoxY(j) >= BoxY(i) + BoxH + GapY
        /\ allItems[i].inputIdx = allItems[j].inputIdx
             => \/ BoxY(j) >= BoxY(i) + BoxH + GapY
                \/ BoxY(i) >= BoxY(j) + BoxH + GapY

\* A placeholder and a cluster member share a column and the collision
\* resolution has left exactly the vertical gap between them.
C3_Witness ==
  /\ pc = "done"
  /\ \E i, j \in Boxed :
       /\ allItems[i].col = allItems[j].col
       /\ allItems[i].isPlaceholder
       /\ allItems[j].clusterId # <<>>
       /\ \/ BoxY(j) = BoxY(i) + BoxH + GapY
          \/ BoxY(i) = BoxY(j) + BoxH + GapY

\* The column the column loop is at.
CurrentCol == sortedCols[colIdx]

\* The multi-parent entities placed in the current column.
MultiParentHere ==
  {i \in 1..Len(nodes) :
     /\ nodes[i].layout.col = <<CurrentCol>>
     /\ nodes[i].layout.clusterId = <<>>
     /\ Len(getLayoutParentIds(nodes[i])) > 1}

\* What stands for parent pid when entity i is centered: pid itself when pid
\* is no entity or cluster or lies in the column just before (or later), else
\* the placeholder of the edge in the column just before the entity.
StandIn(i, pid) ==
  LET parentCol == IF ClusterById(clusters, pid) # 0
                   THEN clusters[ClusterById(clusters, pid)].col
                   ELSE IF IsEntity(pid) THEN nodes[ById(nodes, pid)].layout.col
                   ELSE <<>>
      before == nodes[i].layout.col[1] - 1
  IN IF parentCol # <<>> /\ parentCol[1] < before
     THEN PhId(pid, before, ClusterIdxOf(n2pc, ClusterKey(nodes[i].id, pid, before)))
     ELSE pid

StandIns(i) ==
  [k \in 1..Len(getLayoutParentIds(nodes[i])) |->
     StandIn(i, getLayoutParentIds(nodes[i])[k])]

\* C4 as stated: before its column's collision sweep the center of a
\* multi-parent entity is the arithmetic mean of the centers of its parents,
\* also when one of its parent edges skips columns.
C4_MeanOfDeclaredParents ==
  pc = "sweep" =>
    \A i \in MultiParentHere :
      LET ys == DefinedYs(relY, getLayoutParentIds(nodes[i]))
      IN Len(ys) > 0 => Len(ys) * relY[nodes[i].id] = SumSeq(ys)

\* C4 as amended: before its column's collision sweep the center of a
\* multi-parent entity is the arithmetic mean of the centers of its layout
\* parents that have a center by then; for a parent edge that skips columns
\* the layout parent is the edge's placeholder in the column just before the
\* entity, not the declared parent.
C4_MeanOfLayoutParents ==
  pc = "sweep" =>
    \A i \in MultiParentHere :
      LET ys == DefinedYs(relY, StandIns(i))
      IN Len(ys) > 0 => Len(ys) * relY[nodes[i].id] = SumSeq(ys)

\* A multi-parent entity has been centered between a parent and the
\* placeholder of a skipping parent edge, away from the mean of its parents.
C4_Witness ==
  /\ pc = "sweep"
  /\ \E i \in MultiParentHere :
       LET ys == DefinedYs(relY, StandIns(i))
           ds == DefinedYs(relY, getLayoutParentIds(nodes[i]))
       IN /\ Len(ys) = 2 /\ Len(ds) = 2
          /\ ys[1] # ys[2]
          /\ \E k \in 1..2 : StandIns(i)[k] \in PlaceholdersAt(CurrentCol - 1)
                                \cup {placeholders[j].id : j \in 1..Len(placeholders)}
          /\ 2 * relY[nodes[i].id] = SumSeq(ys)
          /\ 2 * relY[nodes[i].id] # SumSeq(ds)

\* Member m of cluster c: its box, extended by the padding, lies in the
\* cluster's bounding box.
Contains(c, m) ==
  /\ pos[c].x # <<>>
  /\ pos[c].x[1] <= pos[m].x - clusterPad
  /\ pos[c].x[1] + pos[c].clusterW >= pos[m].x + boxW + clusterPad
  /\ pos[c].y <= pos[m].y - clusterPad * YUnit
  /\ pos[c].y + pos[c].clusterH >= pos[m].y + BoxH + clusterPad * YUnit

\* C5: in the position map every cluster's bounding box contains the box of
\* each of its members extended by the cluster padding on all four sides.
C5_ClusterBoxContainsMembers ==
  Positioned =>
    \A c \in 1..Len(clusters) :
      clusters[c].id \in DOMAIN pos =>
        \A k \in 1..Len(clusters[c].members) :
          clusters[c].members[k] \in DOMAIN pos =>
            Contains(clusters[c].id, clusters[c].members[k])

\* C6: the layout pipeline run again on the same entities, in the same order
\* with the same parents and clusters, gives the same position map and the
\* same edge polylines.
C6_SecondRunAgrees ==
  (calls > 1 /\ ~edited /\ pc = "done") => (pos = firstPos /\ edges = firstEdges)

\* A layout with placeholders and routed edges has been computed a second time.
C6_Witness ==
  /\ calls > 1
  /\ ~edited
  /\ pc = "done"
  /\ placeholders # <<>>
  /\ \E k \in 1..Len(edges) : Len(edges[k].pts) > 4

\* The free items of the current column whose one layout parent is pid.
StackOf(pid) ==
  LET Under(item) == /\ item.clusterId = <<>>
                     /\ LayoutParentsOfItem(layoutParents, item) = <<pid>>
  IN SelectSeq(ColumnItems(allItems, CurrentCol), Under)

\* The layout parents that have a center from an earlier column.
ResolvedParents ==
  {pid \in DOMAIN relY :
     \/ \E i \in 1..Len(allItems) :
          allItems[i].id = pid /\ allItems[i].col < CurrentCol
     \/ \E c \in 1..Len(clusters) :
          /\ clusters[c].id = pid
          /\ clusters[c].col # <<>>
          /\ clusters[c].col[1] < CurrentCol}

StackHeight(item) == HeightOr(subtreeHeight, item.id)

\* C7: in each column, before its collision sweep, the entities that share
\* one single layout parent are stacked in input order, consecutive centers
\* half the upper subtree height plus the gap plus half the lower subtree
\* height apart, and the middle of the stack's span is the center of the
\* parent, which was resolved before.
C7_SiblingsStackedAroundParent ==
  pc = "sweep" =>
    \A pid \in ResolvedParents :
      LET g == StackOf(pid) IN
      Len(g) > 0 =>
        /\ \A k \in 1..(Len(g) - 1) :
             /\ g[k].inputIdx <= g[k + 1].inputIdx
             /\ relY[g[k + 1].id] - relY[g[k].id]
                  = StackHeight(g[k]) \div 2 + GapY + StackHeight(g[k + 1]) \div 2
        /\ (relY[g[1].id] - StackHeight(g[1]) \div 2)
             + (relY[g[Len(g)].id] + StackHeight(g[Len(g)]) \div 2)
             = 2 * relY[pid]

\* Two siblings of different subtree height have been stacked around their
\* parent.
C7_Witness ==
  /\ pc = "sweep"
  /\ \E pid \in ResolvedParents :
       LET g == StackOf(pid) IN
       /\ Len(g) > 1
       /\ StackHeight(g[1]) # StackHeight(g[2])
       /\ relY[g[2].id] - relY[g[1].id]
            = StackHeight(g[1]) \div 2 + GapY + StackHeight(g[2]) \div 2

RECURSIVE TreeTechIds(_)
\* The ids of the regular (non-cluster) nodes and technology items of a tree,
\* at every depth.
TreeTechIds(treeNodes) ==
  IF treeNodes = <<>> THEN {}
  ELSE LET t == Head(treeNodes)
       IN (IF t.cluster THEN {} ELSE {t.id})
          \cup TreeTechIds(t.items) \cup TreeTechIds(t.children)
          \cup TreeTechIds(Tail(treeNodes))

\* The ids that a parent reference, a cluster's member list or the tree names
\* although no technology and no cluster has them.
MissingReferences ==
  {pid \in UNION {{getLayoutParentIds(nodes[i])[k] :
                     k \in 1..Len(getLayoutParentIds(nodes[i]))} :
                   i \in 1..Len(nodes)}
            \cup UNION {{clusters[c].members[k] : k \in 1..Len(clusters[c].members)} :
                        c \in 1..Len(clusters)}
            \cup TreeTechIds(tree) :
     ~IsEntity(pid) /\ ClusterById(clusters, pid) = 0}

\* C11: a missing reference (unknown parent id, unknown cluster member,
\* unknown technology in the tree) never aborts the layout: no step throws,
\* no technology the tree names is lost, and every entity has a resolved
\* column and an entry in the position map, in that column.
C11_MissingReferenceNeverAborts ==
  /\ pc # "aborted"
  /\ pc # "init" =>
       \A id \in TreeTechIds(tree) : id # Dangling => IsEntity(id)
  /\ Positioned =>
       \A i \in 1..Len(nodes) :
         /\ nodes[i].id \in DOMAIN resolved
         /\ nodes[i].id \in DOMAIN pos
         /\ pos[nodes[i].id].col = resolved[nodes[i].id]
         /\ pos[nodes[i].id].x = ColX(resolved[nodes[i].id])

\* The layout is finished for a page with a missing reference and an entity
\* that refers to it: a parent id nobody has, or a cluster whose member list
\* names an id nobody has.
C11_Witness ==
  /\ pc = "done"
  /\ Dangling \in MissingReferences
  /\ \E i \in 1..Len(nodes) :
       /\ \E k \in 1..Len(getLayoutParentIds(nodes[i])) :
            getLayoutParentIds(nodes[i])[k] = Dangling
       /\ nodes[i].id \in DOMAIN pos
  /\ \E c \in 1..Len(clusters) :
       \E k \in 1..Len(clusters[c].members) : clusters[c].members[k] = Dangling

\* C12: a layout call leaves behind no state that influences a later call:
\* the descriptors are as their author left them (a call does not modify
\* them), and every call resolves the columns and computes the positions that
\* a first call on these descriptors gives, also after the author changed a
\* parent, an offset or a column between two calls.
C12_CallsLeaveNoState ==
  /\ pc # "init" => nodes = authored
  /\ ColumnsResolved => resolved = resolveColumns(authored)
  /\ Positioned => pos = computePositions(authored, clusters).pos

\* C13: in every resolved layout each structural parent-child edge has
\* childColumn >= parentColumn + 1: the edge from every listed parent of a
\* technology (the second and later ones, the tree's extra_parents, included)
\* and from every parent of a cluster, the parent being a technology or a
\* cluster that has a column.
C13_EdgesGoRight ==
  ColumnsResolved =>
    /\ \A i \in 1..Len(nodes) :
         \A k \in 1..Len(getLayoutParentIds(nodes[i])) :
           LET parentCol == ParentColOf(nodes, clusters, getLayoutParentIds(nodes[i])[k])
           IN parentCol # <<>> => nodes[i].layout.col[1] >= parentCol[1] + 1
    /\ \A c \in 1..Len(clusters) :
         \A k \in 1..Len(clusters[c].parentIds) :
           LET parentCol == ParentColOf(nodes, clusters, clusters[c].parentIds[k])
           IN (parentCol # <<>> /\ clusters[c].col # <<>>)
                => clusters[c].col[1] >= parentCol[1] + 1

\* C14: clusters are column-atomic: for the descriptors as init() left them,
\* every cluster has a column, every member of a cluster that is an entity is
\* resolved to that column, and the member's column is not computed from the
\* member's own parents or offset (resolveColumns finds it set to the
\* cluster's column).
C14_ClustersAreColumnAtomic ==
  (ColumnsResolved /\ ~edited) =>
    \A c \in 1..Len(clusters) :
      \A k \in 1..Len(clusters[c].members) :
        LET m == clusters[c].members[k] IN
        IsEntity(m) =>
          /\ clusters[c].col # <<>>
          /\ resolved[m] = clusters[c].col[1]
          /\ declared[ById(declared, m)].layout.col = clusters[c].col

\* The lists that may replace the second and later parents of an entity.
LaterParents(ids) ==
  {<<>>} \cup {<<x>> : x \in ids} \cup {<<x, y>> : x \in ids, y \in ids}

\* The descriptors ns with the second and later parents of entity i replaced.
WithLaterParentsOf(ns, i, later) ==
  [ns EXCEPT ![i].layout =
     DirectLayout(<<getLayoutParentIds(ns[i])[1]>> \o later, @.offset, @.col)]

RECURSIVE WithExtraParents(_, _, _, _)
\* The tree with the second and later parents of the multi-parent node id
\* replaced: all its extra_parents when it is nested in a parent, all but
\* the first when it is not.
WithExtraParents(treeNodes, id, later, top) ==
  IF treeNodes = <<>> THEN <<>>
  ELSE LET t == Head(treeNodes)
           multi == Len(t.extra_parents) + (IF top THEN 0 ELSE 1) > 1
           extra == IF t.cluster \/ t.id # id \/ ~multi THEN t.extra_parents
                    ELSE IF top THEN <<t.extra_parents[1]>> \o later
                    ELSE later
       IN <<[t EXCEPT !.extra_parents = extra,
                      !.items = WithExtraParents(@, id, later, FALSE),
                      !.children = WithExtraParents(@, id, later, FALSE)]>>
          \o WithExtraParents(Tail(treeNodes), id, later, top)

\* The technologies of data.yaml before the tree walk.
Unwalked ==
  LET Real(t) == ~t.clusterNode
      real == SelectSeq(nodes, Real)
  IN [i \in 1..Len(real) |-> Tech(real[i].id, NoLayout)]

\* The columns the tree walk writes on the technologies.
WalkedCols(t) ==
  LET techs == buildLayoutFromTree(t, Unwalked).technologies
  IN {<<techs[i].id, techs[i].layout.col>> : i \in 1..Len(techs)}

\* C15: the resolved columns depend only on the first listed parent of a
\* multi-parent entity without explicit column: replacing its second and
\* later parents by any other list (changed, reordered, removed) leaves
\* every entity's column as it is, in resolveColumns and in the tree walk.
C15_OnlyFirstParentCounts ==
  /\ pc = "resolved" =>
       \A i \in Inferred :
         Len(getLayoutParentIds(declared[i])) > 1 =>
           \A later \in LaterParents({declared[j].id : j \in 1..Len(declared)}
                                     \cup {Dangling}) :
             resolveColumns(WithLaterParentsOf(declared, i, later)) = resolved
  /\ (pc = "ready" /\ calls = 1 /\ tree # <<>>) =>
       \A id \in TreeTechIds(tree) :
         \A later \in LaterParents(TreeTechIds(tree) \cup {Dangling}) :
           WalkedCols(WithExtraParents(tree, id, later, TRUE)) = WalkedCols(tree)

\* Columns are resolved for an entity without explicit column whose two
\* parents lie in different columns.
C15_Witness ==
  /\ pc = "resolved"
  /\ \E i \in Inferred :
       LET parentIds == getLayoutParentIds(declared[i]) IN
       /\ Len(parentIds) = 2
       /\ ById(declared, parentIds[1]) # 0 /\ ById(declared, parentIds[2]) # 0
       /\ resolved[parentIds[1]] # resolved[parentIds[2]]
       /\ resolved[declared[i].id] = resolved[parentIds[1]] + OffsetOf(i)

\* The entities whose layout declares a parent and nothing else.
ParentOnly ==
  {i \in 1..Len(declared) :
     /\ declared[i].layout.parent # <<>>
     /\ declared[i].layout.parents = <<>>
     /\ declared[i].layout.offset = <<>>
     /\ declared[i].layout.col = <<>>
     /\ ById(declared, declared[i].layout.parent) # 0}

\* C16: an entity whose layout declares only a parent (no offset, no
\* explicit column) is placed in the same column as that parent, and below
\* it in the position map.
C16_ParentOnlyIsSameColumn ==
  /\ ColumnsResolved =>
       \A i \in ParentOnly :
         resolved[declared[i].id] = resolved[declared[i].layout.parent]
  /\ Positioned =>
       \A i \in ParentOnly :
         pos[declared[i].id].y >= pos[declared[i].layout.parent].y + BoxH

\* C17: after route() has handled any sequence of hash changes the current
\* view is determined by the current hash alone: the hash of a technology
\* that is no cluster node shows that technology's detail view, with
\* currentProtocolId equal to the hash; otherwise 'reader' or 'reader-...'
\* shows the reader view; otherwise (empty hash, or a hash that matches no
\* protocol) the tree view is shown.
C17_ViewFollowsHash ==
  pc # "init" =>
    IF IsProtocolHash(hash)
    THEN currentView = "detail" /\ currentProtocolId = hash
    ELSE IF IsReaderHash(hash) THEN currentView = "reader"
    ELSE currentView = "tree" /\ currentProtocolId = <<>>

\* computePositions has created the placeholders of the current call.
Synthesized == pc \notin {"init", "ready", "resolved", "overflow"}

\* The groups of skip edges of the current call.
CurrentGroups ==
  LET groups == SkipEdgeGroups(nodes, clusters)
  IN {groups[g] : g \in 1..Len(groups)}

\* The placeholders created in column col for parent parentId.
PlaceholdersFor(parentId, col) ==
  {placeholders[k].id : k \in {j \in 1..Len(placeholders) :
      /\ placeholders[j].col = col
      /\ \E ci \in 0..Len(nodes) : placeholders[j].id = PhId(parentId, col, ci)}}

\* C18: the synthetic parent reference of every placeholder names an item of
\* the layout: the true parent when the placeholder is in the column just
\* after the parent, otherwise a placeholder that was created for the same
\* parent in the previous column, however the parent's skip edges are split
\* in the two columns.
C18_PlaceholderParentExists ==
  Synthesized =>
    \A g \in CurrentGroups :
      \A k \in 1..Len(placeholders) :
        placeholders[k].id \in PlaceholdersFor(g.parentId, g.col) =>
          IF g.col = g.parentCol + 1
          THEN /\ placeholders[k].parent = g.parentId
               /\ IsEntity(g.parentId) \/ ClusterById(clusters, g.parentId) # 0
          ELSE placeholders[k].parent \in PlaceholdersFor(g.parentId, g.col - 1)

\* The placeholder that nodeToPlaceholderCluster assigns to child (an input
\* index) of group g.
AssignedPlaceholder(g, child) ==
  PhId(g.parentId, g.col,
       ClusterIdxOf(n2pc, ClusterKey(nodes[child].id, g.parentId, g.col)))

\* A technology resolved to column col whose input index lies strictly
\* between lo and hi.
RealBetween(col, lo, hi) ==
  \E r \in 1..Len(nodes) : nodes[r].layout.col = <<col>> /\ lo < r /\ r < hi

\* C19: in the group of skip edges of one parent and one intermediate column,
\* two children consecutive in input order have different placeholders in that
\* column iff a real entity resolved to that column has an input index strictly
\* between theirs; otherwise they share one placeholder, which exists.
C19_SplitIffRealNodeBetween ==
  Synthesized =>
    \A g \in CurrentGroups :
      LET ch == SortIdx(g.children) IN
      \A i \in 2..Len(ch) :
        ch[i - 1] # ch[i] =>
          /\ (AssignedPlaceholder(g, ch[i - 1]) # AssignedPlaceholder(g, ch[i]))
               <=> RealBetween(g.col, ch[i - 1], ch[i])
          /\ \A c \in {ch[i - 1], ch[i]} :
               \E k \in 1..Len(placeholders) :
                 placeholders[k].id = AssignedPlaceholder(g, c)

\* The subtree heights of the members of cluster cm, as the stack uses them.
MemberHeights(cm) ==
  [k \in 1..Len(cm.members) |-> HeightOr(subtreeHeight, cm.members[k])]

\* The centers the cluster step gave the members, before any column was
\* placed or swept.
PlacedClusterItems == PositionClusters(clusters, 1, subtreeHeight, EmptyMap)

\* Twice the middle of the span of the stack of the members of cm as placed,
\* from the top of the first member's height to the bottom of the last one's.
TwiceSpanMiddle(cm) ==
  LET h == MemberHeights(cm)
  IN 2 * PlacedClusterItems[cm.members[1]] - h[1] + SpanOf(h)

\* The final centers of the parents of cluster cm.
ParentCenters(cm) == DefinedYs(relY, cm.parentIds)

\* C20: the members of every cluster are placed as one stack, each member half
\* its height plus the gap plus half the next height below the previous one,
\* and the middle of the stack's span is the mean of the final centers of the
\* cluster's parents that are laid out, 0 only when there is none.
C20_ClusterStackCenteredOnParents ==
  Positioned =>
    \A c \in 1..Len(clusters) :
      LET cm == clusters[c]
          h == MemberHeights(cm)
          pys == ParentCenters(cm)
      IN /\ \A k \in 1..(Len(cm.members) - 1) :
              PlacedClusterItems[cm.members[k + 1]] - PlacedClusterItems[cm.members[k]]
                = h[k] \div 2 + GapY + h[k + 1] \div 2
         /\ IF pys = <<>>
            THEN TwiceSpanMiddle(cm) = 2 * NoParentCenterY
            ELSE TwiceSpanMiddle(cm) * Len(pys) = 2 * SumSeq(pys)

\* The items whose only layout parent is id, once each.
SingleParentChildren(id) ==
  {i \in 1..Len(allItems) : LayoutParentsOfItem(layoutParents, allItems[i]) = <<id>>}

RECURSIVE SumOver(_, _)
SumOver(f, S) ==
  IF S = {} THEN 0 ELSE LET x == CHOOSE y \in S : TRUE IN f[x] + SumOver(f, S \ {x})

RECURSIVE ReferenceHeight(_, _)
\* The subtree height of item i by the reference definition; -1 when the
\* single-parent children do not form a tree within fuel levels.
ReferenceHeight(i, fuel) ==
  LET kids == SingleParentChildren(allItems[i].id) IN
  IF allItems[i].isPlaceholder \/ kids = {} THEN BoxH
  ELSE IF fuel = 0 THEN -1
  ELSE LET hs == [k \in kids |-> ReferenceHeight(k, fuel - 1)]
       IN IF \E k \in kids : hs[k] = -1 THEN -1
          ELSE SumOver(hs, kids) + (Cardinality(kids) - 1) * GapY

\* The reference height of the item with this id, one box height when no
\* item has it.
ReferenceHeightOf(id) ==
  LET hit == {i \in 1..Len(allItems) : allItems[i].id = id}
  IN IF hit = {} THEN BoxH
     ELSE ReferenceHeight(CHOOSE i \in hit : TRUE, Len(allItems))

HeightsComputed ==
  pc \notin {"init", "ready", "resolved", "synthesized", "overflow"}

\* C21: the subtree-height map is the reference definition: one box height for
\* a placeholder and for an item without single-parent children, else the sum
\* of the heights of its single-parent children plus the gaps between them;
\* for a cluster the sum of its members' heights plus the gaps between them.
C21_SubtreeHeightIsReference ==
  HeightsComputed =>
    /\ \A i \in 1..Len(allItems) :
         ReferenceHeight(i, Len(allItems)) # -1 =>
           /\ allItems[i].id \in DOMAIN subtreeHeight
           /\ subtreeHeight[allItems[i].id] = ReferenceHeight(i, Len(allItems))
    /\ \A c \in 1..Len(clusters) :
         LET hs == [k \in 1..Len(clusters[c].members) |->
                      ReferenceHeightOf(clusters[c].members[k])]
         IN (\A k \in 1..Len(hs) : hs[k] # -1) =>
              /\ clusters[c].id \in DOMAIN subtreeHeight
              /\ subtreeHeight[clusters[c].id] = SpanOf(hs)

\* The items of the column that is being swept, in the order of the sweep.
SweptItems == ColumnItems(allItems, CurrentCol)

\* C22: the collision sweep of a column only shifts items downward: the first
\* item in input order stays; every later item moves by the shift of the item
\* before it plus its own overlap, which is the amount by which its box top
\* (after that shift) is above the previous item's box bottom plus the gap, and
\* nothing when there is none; no center of another column or of a cluster
\* changes.
C22_SweepOnlyShiftsDown ==
  [][pc = "sweep" =>
       LET s == SweptItems
           shift == [i \in 1..Len(s) |-> relY'[s[i].id] - relY[s[i].id]]
       IN /\ DOMAIN relY' = DOMAIN relY
          /\ Len(s) > 0 => shift[1] = 0
          /\ \A i \in 2..Len(s) :
               LET prevBottom == relY'[s[i - 1].id] + BoxH \div 2
                   currTop == relY[s[i].id] + shift[i - 1] - BoxH \div 2
                   overlap == prevBottom + GapY - currTop
               IN shift[i] = shift[i - 1] + (IF overlap > 0 THEN overlap ELSE 0)
          /\ \A id \in DOMAIN relY :
               (\A i \in 1..Len(s) : s[i].id # id) => relY'[id] = relY[id]]_vars

\* The first column has been swept, and an item of it lies below the place
\* the column's placement gave it, while the first item has stayed.
C22_Witness ==
  /\ pc \in {"place", "placed"}
  /\ colIdx = 2
  /\ LET s == ColumnItems(allItems, sortedCols[1])
         before == PlaceColumn(s, layoutParents, subtreeHeight, PlacedClusterItems)
     IN /\ relY[s[1].id] = before[s[1].id]
        /\ \E i \in 2..Len(s) : relY[s[i].id] > before[s[i].id]

\* The drawn edges from a parent to a cluster that span more than one column.
ClusterSkipEdges ==
  {k \in 1..Len(edges) :
     /\ ClusterById(clusters, edges[k].child) # 0
     /\ edges[k].parent \in DOMAIN pos /\ edges[k].child \in DOMAIN pos
     /\ pos[edges[k].child].col # <<>>
     /\ PosCol(pos[edges[k].child]) - PosCol(pos[edges[k].parent]) > 1}

\* C23: the polyline of every edge from a parent to a cluster that spans
\* k > 1 columns passes through exactly k - 1 placeholder waypoints, one in
\* each skipped column, at that placeholder's center.
C23_ClusterEdgeThroughPlaceholders ==
  pc = "done" =>
    \A k \in ClusterSkipEdges :
      LET e == edges[k]
          parentCol == PosCol(pos[e.parent])
          childCol == PosCol(pos[e.child])
      IN /\ Len(e.pts) = 2 * (childCol - parentCol) + 2
         /\ \A col \in (parentCol + 1)..(childCol - 1) :
              Cardinality({ph \in PlaceholdersAt(col) : PassesThrough(e.pts, ph)}) = 1

\* Two consecutive points of a polyline lie on one horizontal or one vertical
\* line.
Orthogonal(pts) ==
  \A i \in 1..(Len(pts) - 1) : pts[i].x = pts[i + 1].x \/ pts[i].y = pts[i + 1].y

\* C24: every polyline routeEdge returns is strictly orthogonal: any two
\* consecutive points have the same x or the same y, on direct routes and on
\* routes through placeholders.
C24_PolylinesAreOrthogonal ==
  pc = "done" => \A k \in 1..Len(edges) : Orthogonal(edges[k].pts)

\* A direct route between two different heights and a route through a
\* placeholder that lies at another height than the parent have been drawn.
C24_Witness ==
  /\ pc = "done"
  /\ \E k \in 1..Len(edges) :
       /\ Len(edges[k].pts) = 4
       /\ edges[k].pts[1].y # edges[k].pts[4].y
  /\ \E k \in 1..Len(edges) :
       /\ Len(edges[k].pts) >= 6
       /\ edges[k].pts[1].y # edges[k].pts[3].y

\* The right-mid point of a box or cluster outline, and the left-mid point.
RightMid(id) ==
  [x |-> IF pos[id].isCluster THEN pos[id].clusterRight[1] ELSE pos[id].x + boxW,
   y |-> pos[id].centerY]
LeftMid(id) ==
  [x |-> IF pos[id].isCluster THEN pos[id].clusterLeft[1] ELSE pos[id].x,
   y |-> pos[id].centerY]

\* An edge whose polyline crosses no placeholder of the columns between its
\* ends.
Direct(e) ==
  \A col \in (PosCol(pos[e.parent]) + 1)..(PosCol(pos[e.child]) - 1) :
    \A ph \in PlaceholdersAt(col) : ~PassesThrough(e.pts, ph)

\* C25: every non-empty polyline starts at the parent's right-mid point (for a
\* cluster: its right boundary at its center) and ends at the child's left-mid
\* point; when no placeholder intervenes it has exactly two interior points,
\* both at the horizontal midpoint between the right edge of the parent's
\* column and the left edge of the child's column.
C25_EndsAndElbow ==
  pc = "done" =>
    \A k \in 1..Len(edges) :
      LET e == edges[k] IN
      e.pts # <<>> =>
        /\ e.pts[1] = RightMid(e.parent)
        /\ Last(e.pts) = LeftMid(e.child)
        /\ Direct(e) =>
             LET mid == ((ColX(PosCol(pos[e.parent])) + boxW)
                         + ColX(PosCol(pos[e.child]))) \div 2
             IN /\ Len(e.pts) = 4
                /\ e.pts[2].x = mid
                /\ e.pts[3].x = mid

\* Two edges have been drawn from a cluster to children at different heights,
\* neither through a placeholder.
C25_Witness ==
  /\ pc = "done"
  /\ \E k \in 1..Len(edges) :
       /\ edges[k].pts # <<>>
       /\ pos[edges[k].parent].isCluster
       /\ Direct(edges[k])
       /\ edges[k].pts[1].y # Last(edges[k].pts).y

\* The final center of a member of a cluster on the canvas.
FinalCenter(id) ==
  IF id \in DOMAIN pos THEN pos[id].centerY ELSE relY[id] + OffsetY(relY)

\* The members of cluster cm that have a box.
PlacedMembers(cm) == {cm.members[k] : k \in 1..Len(cm.members)} \cap DOMAIN pos

\* C26: in the output a cluster's center is the midpoint of the final centers
\* of its first and its last member, and its bounding box runs from the
\* topmost final member box to the bottommost one, plus the padding.
C26_ClusterCenterAfterSweep ==
  Positioned =>
    \A c \in 1..Len(clusters) :
      LET cm == clusters[c] IN
      cm.id \in DOMAIN pos =>
        LET top == SetMin({pos[m].y : m \in PlacedMembers(cm)})
            bottom == SetMax({pos[m].y + BoxH : m \in PlacedMembers(cm)})
        IN /\ pos[cm.id].isCluster
           /\ pos[cm.id].centerY
                = (FinalCenter(cm.members[1]) + FinalCenter(Last(cm.members))) \div 2
           /\ pos[cm.id].y = top - clusterPad * YUnit
           /\ pos[cm.id].y + pos[cm.id].clusterH = bottom + clusterPad * YUnit

\* A member of a cluster was pushed down by a collision sweep, and the
\* cluster's center in the output is not the one it had before the sweeps.
C26_Witness ==
  /\ Positioned
  /\ \E c \in 1..Len(clusters) :
       LET cm == clusters[c] IN
       /\ cm.id \in DOMAIN pos
       /\ \A k \in 1..Len(cm.members) : cm.members[k] \in DOMAIN pos
       /\ relY[cm.members[1]] > PlacedClusterItems[cm.members[1]]
       /\ relY[cm.id] # PlacedClusterItems[cm.id]

\* Entity i of the input has no explicit column and a first parent that is an
\* entity: its column is computed from that parent's.
Inherits(ns, i) ==
  /\ ns[i].layout.col = <<>>
  /\ getLayoutParentIds(ns[i]) # <<>>
  /\ ById(ns, getLayoutParentIds(ns[i])[1]) # 0

FirstParentOf(ns, i) == ById(ns, getLayoutParentIds(ns[i])[1])

RECURSIVE ComesBackTo(_, _, _, _)
\* The first-parent references lead from cur back to start within n steps,
\* through entities without explicit column only.
ComesBackTo(ns, start, cur, n) ==
  /\ n > 0
  /\ Inherits(ns, cur)
  /\ \/ FirstParentOf(ns, cur) = start
     \/ ComesBackTo(ns, start, FirstParentOf(ns, cur), n - 1)

\* The entities on a cycle of first-parent references.
OnFirstParentCycle(ns) == {i \in 1..Len(ns) : ComesBackTo(ns, i, i, Len(ns))}

\* C27: column resolution returns on every input whose first-parent
\* references are acyclic, with a column for every entity and resolved.set run
\* exactly once per entity; on an input with a cycle of first-parent
\* references among entities without explicit column it does not return:
\* getCol recurses until the call stack is exhausted.
C27_ResolutionTerminatesUnlessCyclic ==
  pc \notin {"init", "ready"} =>
    /\ pc = "overflow" <=> OnFirstParentCycle(declared) # {}
    /\ pc = "resolved" =>
         LET st == ResolveAllVisits(declared, 1, [resolved |-> EmptyMap, sets |-> <<>>])
         IN /\ st.resolved = resolved
            /\ \A i \in 1..Len(declared) :
                 /\ declared[i].id \in DOMAIN resolved
                 /\ Cardinality({k \in 1..Len(st.sets) : st.sets[k] = declared[i].id}) = 1

\* Column resolution did not return: two entities are each other's first
\* parent and a third one, outside the cycle, refers to one of them.
C27_Witness ==
  /\ pc = "overflow"
  /\ OnFirstParentCycle(declared) # {}
  /\ \E i \in 1..Len(declared) :
       /\ i \notin OnFirstParentCycle(declared)
       /\ Inherits(declared, i)
       /\ FirstParentOf(declared, i) \in OnFirstParentCycle(declared)

\* The (child id, parent id, column) triples of the skip edges: one for every
\* child of every group.
SkipTriples ==
  UNION {{<<nodes[g.children[k]].id, g.parentId, g.col>> : k \in 1..Len(g.children)} :
           g \in CurrentGroups}

\* The placeholder cluster the grouping computes for a triple: the number of
\* consecutive children of its group, up to the child, that a real entity of
\* the column separates.
ComputedClusterIdx(t) ==
  LET g == CHOOSE h \in CurrentGroups : h.parentId = t[2] /\ h.col = t[3]
      ch == SortIdx(g.children)
      at == CHOOSE i \in 1..Len(ch) : nodes[ch[i]].id = t[1]
  IN Cardinality({i \in 2..at : RealBetween(g.col, ch[i - 1], ch[i])})

\* C28: the keys of the placeholder assignment are unambiguous: two different
\* (child, parent, column) triples never have the same key, no two items of
\* the layout have the same id, and nodeToPlaceholderCluster holds for every
\* skip edge the placeholder cluster computed for that edge.
C28_KeysAreUnambiguous ==
  Synthesized =>
    /\ \A t, u \in SkipTriples :
         t # u => ClusterKey(t[1], t[2], t[3]) # ClusterKey(u[1], u[2], u[3])
    /\ \A i, j \in 1..Len(allItems) : i # j => allItems[i].id # allItems[j].id
    /\ \A t \in SkipTriples :
         ClusterIdxOf(n2pc, ClusterKey(t[1], t[2], t[3])) = ComputedClusterIdx(t)

\* The clusters whose column was swept before the current one.
SweptClusters ==
  {c \in 1..Len(clusters) :
     /\ clusters[c].col # <<>>
     /\ clusters[c].col[1] < CurrentCol
     /\ \A k \in 1..Len(clusters[c].members) :
          \E i \in 1..Len(nodes) :
            /\ nodes[i].id = clusters[c].members[k]
            /\ nodes[i].layout.col = clusters[c].col}

\* C29: before the collision sweep of their column, the middle of the stack
\* of the entities whose only layout parent is a cluster is the cluster's
\* final center, the midpoint of the centers its first and its last member
\* have after the sweep of the cluster's column.
C29_StackAroundFinalClusterCenter ==
  pc = "sweep" =>
    \A c \in SweptClusters :
      LET cm == clusters[c]
          g == StackOf(cm.id)
      IN Len(g) > 0 =>
           (relY[g[1].id] - StackHeight(g[1]) \div 2)
             + (relY[g[Len(g)].id] + StackHeight(g[Len(g)]) \div 2)
             = relY[cm.members[1]] + relY[Last(cm.members)]

\* C30: after any sequence of route() calls at most one reader scroll-spy
\* listener is registered, and none while the current view is the tree or a
\* detail page.
C30_AtMostOneScrollSpy ==
  /\ scrollListeners <= 1
  /\ currentView \in {"none", "tree", "detail"} => scrollListeners = 0
  /\ scrollObserver <=> scrollListeners = 1

\* The reader is shown at an anchor with its scroll spy registered, after the
\* tree page was shown twice.
C30_Witness ==
  /\ currentView = "reader"
  /\ hash = <<"reader", "notes">>
  /\ scrollListeners = 1
  /\ calls = MaxCalls

====
